---- MODULE Spec2Model ----
(***************************************************************************)
(* Camera frustum planes of packages/dev/core/src/Maths/math.frustum.ts:   *)
(* extraction of the six planes from a transform matrix and the point      *)
(* containment test.                                                       *)
(*                                                                         *)
(* Numbers.  Matrix entries and point coordinates are integers.  A plane   *)
(* field is the real number n / sqrt(q), kept exactly as the record        *)
(* [n |-> n, q |-> q] with q > 0 (an integer k is [n |-> k, q |-> 1]).      *)
(* Floating-point rounding, infinities and NaN are not modelled.           *)
(*                                                                         *)
(* Objects.  Plane objects live in heap, a sequence indexed by object id;  *)
(* a Plane[] array is a function from 0..len-1 to object ids.              *)
(***************************************************************************)
EXTENDS Integers, Sequences, FiniteSets, TLC

VARIABLES
    transform,          \* transform.m, the 16 entries of the input matrix
    zeroLengthPolicy,   \* what Plane.normalize does with a zero-length normal
    heap,               \* the Plane objects, by object id
    frustumPlanes,      \* the caller's pre-allocated Plane[] (object ids)
    returned,           \* the Plane[] returned by the last GetPlanes call
    allocCalls,         \* number of GetPlanes calls made
    lastCall,           \* the call that ran last: name, target plane, array
    point,              \* the point of the last IsPointInFrustum call
    result,             \* the boolean the last IsPointInFrustum call returned
    evaluated,          \* the indices i of the dotCoordinate calls it made, in order
    invocations,        \* the extraction calls in progress, each at a field write
    hdr,                \* an HDRFiltering instance, its engine, its calls and their events
    filtering,          \* a _prefilterInternal call in progress: its loops and GPU calls
    engine              \* an Engine instance and what its host holds for it

\* What the calls on the frustum read and write as a whole
frustumVars == <<transform, zeroLengthPolicy, heap, frustumPlanes, returned,
                 allocCalls, lastCall, point, result, evaluated>>

\* What the calls that run as a whole leave alone
otherVars == <<invocations, hdr, filtering, engine>>

vars == <<frustumVars, otherVars>>

----------------------------------------------------------------------------
(* Bounds *)

MaxCoef == 1
MaxCoord == 1
ExtraSlots == 1
MaxGetPlanesCalls == 2
MaxPrefilterCalls == 2
MaxTextures == 2
MaxWidth == 8
MaxRenderFunctions == 2
MaxFrameRequests == 3
MaxFrames == 2
MaxScenes == 2
MaxPostProcesses == 2
MaxWrappers == 2
MaxRescaleCalls == 2
MaxReadCalls == 2
MaxPolls == 2

----------------------------------------------------------------------------
(* Scalars n / sqrt(q) *)

Num(k) == [n |-> k, q |-> 1]

IsNegative(a) == a.n < 0

----------------------------------------------------------------------------
(* Plane and Vector3 values *)

Vector3(x, y, z) == [x |-> x, y |-> y, z |-> z]

\* new Plane(a, b, c, d)
Plane(a, b, c, d) == [normal |-> [x |-> Num(a), y |-> Num(b), z |-> Num(c)], d |-> Num(d)]

Policies == {"zero", "keep"}

\* Plane.normalize(): with len = sqrt(nx^2 + ny^2 + nz^2), divide the normal
\* and d by len.  len^2 = A / B below, so a field n/sqrt(q) becomes
\* n*B / sqrt(q*A*B); for freshly written integer fields this is n / sqrt(A).
\* A zero length leaves the plane degenerate: the normal stays the zero
\* vector and d is zeroed or kept, as the implementation's policy says.
normalize(h, this) ==
    LET nx == h[this].normal.x
        ny == h[this].normal.y
        nz == h[this].normal.z
        B  == nx.q * ny.q * nz.q
        A  == nx.n * nx.n * ny.q * nz.q + ny.n * ny.n * nx.q * nz.q + nz.n * nz.n * nx.q * ny.q
        Div(f) == [n |-> f.n * B, q |-> f.q * A * B]
    IN  IF A = 0
        THEN IF zeroLengthPolicy = "zero"
             THEN [h EXCEPT ![this] = Plane(0, 0, 0, 0)]
             ELSE h
        ELSE [h EXCEPT ![this] = [normal |-> [x |-> Div(nx), y |-> Div(ny), z |-> Div(nz)],
                                  d |-> Div(h[this].d)]]

\* Plane.dotCoordinate(point): normal . point + d.  The four fields of a plane
\* are written together, so they share one q and the sum is again n / sqrt(q).
dotCoordinate(plane, pt) ==
    CASE /\ plane.normal.x.q = plane.d.q
         /\ plane.normal.y.q = plane.d.q
         /\ plane.normal.z.q = plane.d.q ->
            [n |-> plane.normal.x.n * pt.x + plane.normal.y.n * pt.y
                     + plane.normal.z.n * pt.z + plane.d.n,
             q |-> plane.d.q]

----------------------------------------------------------------------------
(* math.frustum.ts *)

\* Variant: the call of normalize() is missing
GetNearPlaneToRef_NotNormalized(h, m, frustumPlane) ==
    [h EXCEPT ![frustumPlane].normal.x = Num(m[3] + m[2]),
              ![frustumPlane].normal.y = Num(m[7] + m[6]),
              ![frustumPlane].normal.z = Num(m[11] + m[10]),
              ![frustumPlane].d = Num(m[15] + m[14])]

GetNearPlaneToRef(h, m, frustumPlane) ==
    normalize([h EXCEPT ![frustumPlane].normal.x = Num(m[3] + m[2]),
                        ![frustumPlane].normal.y = Num(m[7] + m[6]),
                        ![frustumPlane].normal.z = Num(m[11] + m[10]),
                        ![frustumPlane].d = Num(m[15] + m[14])], frustumPlane)

\* Variant: the body of the near plane pasted without turning + into -
GetFarPlaneToRef_AsNear(h, m, frustumPlane) ==
    normalize([h EXCEPT ![frustumPlane].normal.x = Num(m[3] + m[2]),
                        ![frustumPlane].normal.y = Num(m[7] + m[6]),
                        ![frustumPlane].normal.z = Num(m[11] + m[10]),
                        ![frustumPlane].d = Num(m[15] + m[14])], frustumPlane)

GetFarPlaneToRef(h, m, frustumPlane) ==
    normalize([h EXCEPT ![frustumPlane].normal.x = Num(m[3] - m[2]),
                        ![frustumPlane].normal.y = Num(m[7] - m[6]),
                        ![frustumPlane].normal.z = Num(m[11] - m[10]),
                        ![frustumPlane].d = Num(m[15] - m[14])], frustumPlane)

\* Variant: normal.x read from column 1 (m[1]) instead of column 0
GetLeftPlaneToRef_WrongColumn(h, m, frustumPlane) ==
    normalize([h EXCEPT ![frustumPlane].normal.x = Num(m[3] + m[1]),
                        ![frustumPlane].normal.y = Num(m[7] + m[4]),
                        ![frustumPlane].normal.z = Num(m[11] + m[8]),
                        ![frustumPlane].d = Num(m[15] + m[12])], frustumPlane)

GetLeftPlaneToRef(h, m, frustumPlane) ==
    normalize([h EXCEPT ![frustumPlane].normal.x = Num(m[3] + m[0]),
                        ![frustumPlane].normal.y = Num(m[7] + m[4]),
                        ![frustumPlane].normal.z = Num(m[11] + m[8]),
                        ![frustumPlane].d = Num(m[15] + m[12])], frustumPlane)

\* Variant: d computed with + instead of -
GetRightPlaneToRef_PlusD(h, m, frustumPlane) ==
    normalize([h EXCEPT ![frustumPlane].normal.x = Num(m[3] - m[0]),
                        ![frustumPlane].normal.y = Num(m[7] - m[4]),
                        ![frustumPlane].normal.z = Num(m[11] - m[8]),
                        ![frustumPlane].d = Num(m[15] + m[12])], frustumPlane)

GetRightPlaneToRef(h, m, frustumPlane) ==
    normalize([h EXCEPT ![frustumPlane].normal.x = Num(m[3] - m[0]),
                        ![frustumPlane].normal.y = Num(m[7] - m[4]),
                        ![frustumPlane].normal.z = Num(m[11] - m[8]),
                        ![frustumPlane].d = Num(m[15] - m[12])], frustumPlane)

\* Variant: normal.z is never assigned and keeps what the plane held
GetTopPlaneToRef_KeepsZ(h, m, frustumPlane) ==
    normalize([h EXCEPT ![frustumPlane].normal.x = Num(m[3] - m[1]),
                        ![frustumPlane].normal.y = Num(m[7] - m[5]),
                        ![frustumPlane].d = Num(m[15] - m[13])], frustumPlane)

GetTopPlaneToRef(h, m, frustumPlane) ==
    normalize([h EXCEPT ![frustumPlane].normal.x = Num(m[3] - m[1]),
                        ![frustumPlane].normal.y = Num(m[7] - m[5]),
                        ![frustumPlane].normal.z = Num(m[11] - m[9]),
                        ![frustumPlane].d = Num(m[15] - m[13])], frustumPlane)

\* Variant: the second row is subtracted, as for the top plane
GetBottomPlaneToRef_AsTop(h, m, frustumPlane) ==
    normalize([h EXCEPT ![frustumPlane].normal.x = Num(m[3] - m[1]),
                        ![frustumPlane].normal.y = Num(m[7] - m[5]),
                        ![frustumPlane].normal.z = Num(m[11] - m[9]),
                        ![frustumPlane].d = Num(m[15] - m[13])], frustumPlane)

GetBottomPlaneToRef(h, m, frustumPlane) ==
    normalize([h EXCEPT ![frustumPlane].normal.x = Num(m[3] + m[1]),
                        ![frustumPlane].normal.y = Num(m[7] + m[5]),
                        ![frustumPlane].normal.z = Num(m[11] + m[9]),
                        ![frustumPlane].d = Num(m[15] + m[13])], frustumPlane)

\* Variant: the top and bottom planes written to each other's slot
GetPlanesToRef_TopBottomSwapped(h, m, planesArray) ==
    LET h0 == GetNearPlaneToRef(h, m, planesArray[0])
        h1 == GetFarPlaneToRef(h0, m, planesArray[1])
        h2 == GetLeftPlaneToRef(h1, m, planesArray[2])
        h3 == GetRightPlaneToRef(h2, m, planesArray[3])
        h4 == GetTopPlaneToRef(h3, m, planesArray[5])
    IN  GetBottomPlaneToRef(h4, m, planesArray[4])

\* Variant: one write too many, into the entry after slot 5 when there is one
GetPlanesToRef_SevenSlots(h, m, planesArray) ==
    LET h0 == GetNearPlaneToRef(h, m, planesArray[0])
        h1 == GetFarPlaneToRef(h0, m, planesArray[1])
        h2 == GetLeftPlaneToRef(h1, m, planesArray[2])
        h3 == GetRightPlaneToRef(h2, m, planesArray[3])
        h4 == GetTopPlaneToRef(h3, m, planesArray[4])
        h5 == GetBottomPlaneToRef(h4, m, planesArray[5])
    IN  IF 6 \in DOMAIN planesArray
        THEN GetBottomPlaneToRef(h5, m, planesArray[6])
        ELSE h5

\* Variant: the function returns after the first plane whose normal is zero
GetPlanesToRef_StopsAtDegenerate(h, m, planesArray) ==
    LET Degenerate(h_, id) == /\ h_[id].normal.x.n = 0
                              /\ h_[id].normal.y.n = 0
                              /\ h_[id].normal.z.n = 0
        h0 == GetNearPlaneToRef(h, m, planesArray[0])
        h1 == GetFarPlaneToRef(h0, m, planesArray[1])
        h2 == GetLeftPlaneToRef(h1, m, planesArray[2])
        h3 == GetRightPlaneToRef(h2, m, planesArray[3])
        h4 == GetTopPlaneToRef(h3, m, planesArray[4])
    IN  CASE Degenerate(h0, planesArray[0]) -> h0
          [] Degenerate(h1, planesArray[1]) -> h1
          [] Degenerate(h2, planesArray[2]) -> h2
          [] Degenerate(h3, planesArray[3]) -> h3
          [] Degenerate(h4, planesArray[4]) -> h4
          [] OTHER -> GetBottomPlaneToRef(h4, m, planesArray[5])

\* The heap after GetPlanesToRef(transform, planesArray)
GetPlanesToRef(h, m, planesArray) ==
    LET h0 == GetNearPlaneToRef(h, m, planesArray[0])
        h1 == GetFarPlaneToRef(h0, m, planesArray[1])
        h2 == GetLeftPlaneToRef(h1, m, planesArray[2])
        h3 == GetRightPlaneToRef(h2, m, planesArray[3])
        h4 == GetTopPlaneToRef(h3, m, planesArray[4])
    IN  GetBottomPlaneToRef(h4, m, planesArray[5])

\* Variant: one Plane allocated before the loop and pushed six times
GetPlanes_SharedPlane(h, m) ==
    LET pushed == [index \in 0..5 |-> Len(h) + 1]
        h1 == h \o <<Plane(0, 0, 0, 0)>>
    IN  [heap |-> GetPlanesToRef(h1, m, pushed), frustumPlanes |-> pushed]

\* Variant: the six planes are allocated by the first call and kept (the
\* newest six objects of a heap that holds more than the caller's); later
\* calls write into them and return them again
GetPlanes_CachedPlanes(h, m) ==
    LET cached == [index \in 0..5 |-> Len(h) - 5 + index]
        pushed == [index \in 0..5 |-> Len(h) + 1 + index]
        h6 == h \o [index \in 1..6 |-> Plane(0, 0, 0, 0)]
    IN  IF Len(h) >= 6 + 6
        THEN [heap |-> GetPlanesToRef(h, m, cached), frustumPlanes |-> cached]
        ELSE [heap |-> GetPlanesToRef(h6, m, pushed), frustumPlanes |-> pushed]

\* GetPlanes(transform): six new Plane(0, 0, 0, 0) objects pushed on a new
\* array, then GetPlanesToRef on it.  Gives the heap and the returned array.
GetPlanes(h, m) ==
    LET pushed == [index \in 0..5 |-> Len(h) + 1 + index]
        h6 == h \o [index \in 1..6 |-> Plane(0, 0, 0, 0)]
    IN  [heap |-> GetPlanesToRef(h6, m, pushed), frustumPlanes |-> pushed]

RECURSIVE IsPointInFrustumFrom(_, _, _, _)
IsPointInFrustumFrom(h, pt, planesArray, i) ==
    IF i < 6
    THEN IF IsNegative(dotCoordinate(h[planesArray[i]], pt))
         THEN FALSE
         ELSE IsPointInFrustumFrom(h, pt, planesArray, i + 1)
    ELSE TRUE

\* Variant: the loop stops at i < 5
RECURSIVE IsPointInFrustumFrom_FivePlanes(_, _, _, _)
IsPointInFrustumFrom_FivePlanes(h, pt, planesArray, i) ==
    IF i < 5
    THEN IF IsNegative(dotCoordinate(h[planesArray[i]], pt))
         THEN FALSE
         ELSE IsPointInFrustumFrom_FivePlanes(h, pt, planesArray, i + 1)
    ELSE TRUE

IsPointInFrustum_FivePlanes(h, pt, planesArray) ==
    IsPointInFrustumFrom_FivePlanes(h, pt, planesArray, 0)

\* Variant: the test is <= 0 instead of < 0
RECURSIVE IsPointInFrustumFrom_OpenHalfSpace(_, _, _, _)
IsPointInFrustumFrom_OpenHalfSpace(h, pt, planesArray, i) ==
    IF i < 6
    THEN IF dotCoordinate(h[planesArray[i]], pt).n <= 0
         THEN FALSE
         ELSE IsPointInFrustumFrom_OpenHalfSpace(h, pt, planesArray, i + 1)
    ELSE TRUE

IsPointInFrustum_OpenHalfSpace(h, pt, planesArray) ==
    IsPointInFrustumFrom_OpenHalfSpace(h, pt, planesArray, 0)

\* Variant: the loop runs over the whole array, i < frustumPlanes.length
RECURSIVE IsPointInFrustumFrom_WholeArray(_, _, _, _)
IsPointInFrustumFrom_WholeArray(h, pt, planesArray, i) ==
    IF i \in DOMAIN planesArray
    THEN IF IsNegative(dotCoordinate(h[planesArray[i]], pt))
         THEN FALSE
         ELSE IsPointInFrustumFrom_WholeArray(h, pt, planesArray, i + 1)
    ELSE TRUE

IsPointInFrustum_WholeArray(h, pt, planesArray) ==
    IsPointInFrustumFrom_WholeArray(h, pt, planesArray, 0)

\* Variant: a rejected point is accepted when a later plane has it inside
RECURSIVE IsPointInFrustumFrom_LastPlaneWins(_, _, _, _, _)
IsPointInFrustumFrom_LastPlaneWins(h, pt, planesArray, i, inside) ==
    IF i < 6
    THEN IsPointInFrustumFrom_LastPlaneWins(h, pt, planesArray, i + 1,
            ~IsNegative(dotCoordinate(h[planesArray[i]], pt)))
    ELSE inside

IsPointInFrustum_LastPlaneWins(h, pt, planesArray) ==
    IsPointInFrustumFrom_LastPlaneWins(h, pt, planesArray, 0, TRUE)

IsPointInFrustum(h, pt, planesArray) == IsPointInFrustumFrom(h, pt, planesArray, 0)

\* The indices i for which the loop of IsPointInFrustum calls
\* frustumPlanes[i].dotCoordinate(point), in the order of the calls
RECURSIVE IsPointInFrustumCallsFrom(_, _, _, _)
IsPointInFrustumCallsFrom(h, pt, planesArray, i) ==
    IF i < 6
    THEN IF IsNegative(dotCoordinate(h[planesArray[i]], pt))
         THEN <<i>>
         ELSE <<i>> \o IsPointInFrustumCallsFrom(h, pt, planesArray, i + 1)
    ELSE <<>>

\* Variant: no early return, the outcome is accumulated over all six planes
IsPointInFrustumCalls_NoEarlyReturn(h, pt, planesArray) == <<0, 1, 2, 3, 4, 5>>

IsPointInFrustumCalls(h, pt, planesArray) == IsPointInFrustumCallsFrom(h, pt, planesArray, 0)

\* Variant: each plane is normalized in place before it is tested
IsPointInFrustumHeap_Normalizes(h, pt, planesArray) ==
    normalize(normalize(normalize(normalize(normalize(normalize(h,
        planesArray[0]), planesArray[1]), planesArray[2]), planesArray[3]),
        planesArray[4]), planesArray[5])

\* The heap after IsPointInFrustum(point, frustumPlanes): the function
\* assigns nothing
IsPointInFrustumHeap(h, pt, planesArray) == h

----------------------------------------------------------------------------
(* Inputs *)

Coefs == -MaxCoef..MaxCoef
Coords == -MaxCoord..MaxCoord
Points == {Vector3(x, y, z) : x \in Coords, y \in Coords, z \in Coords}

\* Matrix.Identity()
IdentityMatrix == [i \in 0..15 |-> IF i \in {0, 5, 10, 15} THEN 1 ELSE 0]

\* A left-handed perspective projection: m[11] = 1, m[15] = 0
PerspectiveMatrix == [i \in 0..15 |-> CASE i \in {0, 5, 11} -> 1
                                         [] i = 10 -> 2
                                         [] i = 14 -> -1
                                         [] OTHER -> 0]

\* The same projection seen from a camera translated by (1, -1, 2):
\* translation * PerspectiveMatrix
ViewProjectionMatrix == [i \in 0..15 |-> CASE i \in {0, 5, 11, 12} -> 1
                                            [] i \in {10, 15} -> 2
                                            [] i = 13 -> -1
                                            [] i = 14 -> 3
                                            [] OTHER -> 0]

BaseMatrices == {IdentityMatrix, PerspectiveMatrix, ViewProjectionMatrix}

\* The base matrices and each of them with one entry replaced
Matrices == BaseMatrices \cup
            {[b EXCEPT ![i] = v] : b \in BaseMatrices, i \in 0..15, v \in Coefs}

\* Contents of the caller's planes before any extraction
UsedPlane == Plane(1, -2, 2, -3)
PriorPlanes == {Plane(0, 0, 0, 0), UsedPlane}

\* A plane no point is inside of: signed distance -1 everywhere
RejectingPlane == Plane(0, 0, 0, -1)

ArrayLength == 6 + ExtraSlots

NoArray == <<>>
NoPoint == Vector3(0, 0, 0)
NoCall == [name |-> "none", target |-> 0, array |-> "none"]

----------------------------------------------------------------------------
(* State machine *)

\* new HDRFiltering(engine): the instance has neither an effect renderer nor
\* an effect wrapper yet (object 0), and nothing has been called.  Objects
\* are numbered in the order of their creation; disposals counts the
\* dispose() calls on each; calls holds, per prefilter call, its arguments,
\* the state of the promise it returned and whether its callback has run.
HDRFiltering(allowTexturePrefiltering) ==
    [allowTexturePrefiltering |-> allowTexturePrefiltering,
     _effectRenderer |-> 0,
     _effectWrapper |-> 0,
     created |-> 0,
     disposals |-> <<>>,
     prefiltered |-> {},
     warnings |-> 0,
     calls |-> <<>>,
     log |-> <<>>]

\* issued: how many prefilter calls have been made when the event happens
Event(name, call, self) == [event |-> name, call |-> call, object |-> 0,
                            issued |-> Len(self.calls),
                            _effectRenderer |-> self._effectRenderer,
                            _effectWrapper |-> self._effectWrapper]

\* this._prefilterInternal(texture): filters with the instance's effect
\* wrapper and effect renderer and marks the texture as prefiltered
_prefilterInternal(self, call) ==
    [self EXCEPT !.prefiltered = @ \cup {self.calls[call].texture},
                 !.log = Append(@, Event("_prefilterInternal", call, self))]

\* dispose() on the effect renderer or the effect wrapper of the instance
dispose(self, call, field) ==
    LET object == IF field = "_effectRenderer" THEN self._effectRenderer
                  ELSE self._effectWrapper
    IN  [self EXCEPT !.disposals[object] = @ + 1,
                     !.log = Append(@, [Event(field, call, self) EXCEPT !.object = object])]

\* resolve() of the promise the call returned
resolve(self, call) ==
    [self EXCEPT !.calls[call].promise = IF @ = "pending" THEN "resolved" ELSE @,
                 !.log = Append(@, Event("resolve", call, self))]

onFinished(self, call) ==
    IF self.calls[call].onFinished
    THEN [self EXCEPT !.log = Append(@, Event("onFinished", call, self))]
    ELSE self

\* Variant: the promise is resolved and onFinished called before the filtering
compiledCallback_ResolvesFirst(self, call) ==
    LET s1 == onFinished(resolve(self, call), call)
        s2 == _prefilterInternal(s1, call)
        s3 == dispose(s2, call, "_effectRenderer")
        s4 == dispose(s3, call, "_effectWrapper")
    IN  [s4 EXCEPT !.calls[call].ran = TRUE]

\* The callback prefilter hands to executeWhenCompiled, run to completion
compiledCallback(self, call) ==
    LET s1 == _prefilterInternal(self, call)
        s2 == dispose(s1, call, "_effectRenderer")
        s3 == dispose(s2, call, "_effectWrapper")
        s4 == resolve(s3, call)
        s5 == onFinished(s4, call)
    IN  [s5 EXCEPT !.calls[call].ran = TRUE]

\* Variant: the renderer and the wrapper are created before the engine's
\* features are looked at
prefilter_ChecksLate(self, texture, hasOnFinished, ready) ==
    LET call == Len(self.calls) + 1
        created == [self EXCEPT !._effectRenderer = self.created + 1,
                                !._effectWrapper = self.created + 2,
                                !.created = self.created + 2,
                                !.disposals = @ \o <<0, 0>>]
        rejected == [created EXCEPT !.warnings = @ + 1,
                                    !.calls = Append(@, [texture |-> texture,
                                                         onFinished |-> hasOnFinished,
                                                         promise |-> "rejected",
                                                         effect |-> 0,
                                                         ran |-> FALSE])]
        registered == [created EXCEPT !.calls = Append(@, [texture |-> texture,
                                                           onFinished |-> hasOnFinished,
                                                           promise |-> "pending",
                                                           effect |-> self.created + 2,
                                                           ran |-> FALSE])]
    IN  IF ~self.allowTexturePrefiltering THEN rejected
        ELSE IF ready THEN compiledCallback(registered, call)
        ELSE registered

\* prefilter(texture, onFinished).  ready: the effect of the new wrapper is
\* compiled already, so executeWhenCompiled runs the callback at once.
\* warnings counts the Logger.Warn calls.
prefilter(self, texture, hasOnFinished, ready) ==
    LET call == Len(self.calls) + 1
        rejected == [self EXCEPT !.warnings = @ + 1,
                                 !.calls = Append(@, [texture |-> texture,
                                                       onFinished |-> hasOnFinished,
                                                       promise |-> "rejected",
                                                       effect |-> 0,
                                                       ran |-> FALSE])]
        registered == [self EXCEPT !._effectRenderer = self.created + 1,
                                   !._effectWrapper = self.created + 2,
                                   !.created = self.created + 2,
                                   !.disposals = @ \o <<0, 0>>,
                                   !.calls = Append(@, [texture |-> texture,
                                                        onFinished |-> hasOnFinished,
                                                        promise |-> "pending",
                                                        effect |-> self.created + 2,
                                                        ran |-> FALSE])]
    IN  IF ~self.allowTexturePrefiltering THEN rejected
        ELSE IF ready THEN compiledCallback(registered, call)
        ELSE registered

\* Scalar.ILog2(value): the integer part of the base-2 logarithm
RECURSIVE ILog2(_)
ILog2(value) == IF value < 2 THEN 0 ELSE 1 + ILog2(value \div 2)

\* Math.pow(2, (lod - _lodGenerationOffset) / _lodGenerationScale) / width,
\* a positive real kept as its arguments, and 0 for lod 0
NoAlpha == [isZero |-> FALSE, lod |-> 0, width |-> 0]

alphaG(lod, width) == IF lod = 0 THEN [isZero |-> TRUE, lod |-> 0, width |-> width]
                      ELSE [isZero |-> FALSE, lod |-> lod, width |-> width]

\* A call on the engine, the effect or the effect renderer
GpuCall(name, face, lod, value) == [call |-> name, face |-> face, lod |-> lod, value |-> value]

\* No _prefilterInternal call
NoFiltering == [width |-> 0, intTexture |-> FALSE, mipmapsCount |-> 0, pc |-> "none",
                face |-> 0, lod |-> 0, log |-> <<>>, _prefiltered |-> FALSE]

\* _prefilterInternal(texture) before its first statement
Filtering(width, intTexture) ==
    [NoFiltering EXCEPT !.width = width, !.intTexture = intTexture, !.pc = "start"]

\* Up to the two loops: the render target, the saved states, the uniforms
filterBegin(f) ==
    [f EXCEPT !.mipmapsCount = ILog2(f.width) + 1,
              !.pc = "face",
              !.face = 0,
              !.log = <<GpuCall("_createRenderTarget", 0, 0, NoAlpha),
                        GpuCall("saveStates", 0, 0, NoAlpha),
                        GpuCall("setViewport", 0, 0, NoAlpha)>>
                      \o (IF f.intTexture
                          THEN <<GpuCall("updateTextureSamplingMode", 0, 0, NoAlpha)>>
                          ELSE <<>>)
                      \o <<GpuCall("applyEffectWrapper", 0, 0, NoAlpha),
                           GpuCall("hdrScale", 0, 0, NoAlpha),
                           GpuCall("vFilteringInfo", 0, 0, NoAlpha),
                           GpuCall("inputTexture", 0, 0, NoAlpha)>>]

\* The head of the outer loop's body: up, right, front of the face
faceBegin(f) ==
    [f EXCEPT !.pc = "lod",
              !.lod = 0,
              !.log = @ \o <<GpuCall("up", f.face, 0, NoAlpha),
                             GpuCall("right", f.face, 0, NoAlpha),
                             GpuCall("front", f.face, 0, NoAlpha)>>]

\* Variant: the framebuffer is bound after the draw
lodIteration_BindsAfterDraw(f) ==
    [f EXCEPT !.lod = f.lod + 1,
              !.log = @ \o <<GpuCall("applyEffectWrapper", f.face, f.lod, NoAlpha),
                             GpuCall("alphaG", f.face, f.lod, alphaG(f.lod, f.width)),
                             GpuCall("draw", f.face, f.lod, NoAlpha),
                             GpuCall("bindFramebuffer", f.face, f.lod, NoAlpha)>>]

\* The body of the inner loop, and lod++
lodIteration(f) ==
    [f EXCEPT !.lod = f.lod + 1,
              !.log = @ \o <<GpuCall("bindFramebuffer", f.face, f.lod, NoAlpha),
                             GpuCall("applyEffectWrapper", f.face, f.lod, NoAlpha),
                             GpuCall("alphaG", f.face, f.lod, alphaG(f.lod, f.width)),
                             GpuCall("draw", f.face, f.lod, NoAlpha)>>]

\* The inner loop is over: face++
faceEnd(f) == [f EXCEPT !.face = f.face + 1, !.pc = "face"]

\* After the loops: cleanup, internal swap, new settings
filterEnd(f) ==
    [f EXCEPT !.pc = "done",
              !._prefiltered = TRUE,
              !.log = @ \o <<GpuCall("restoreStates", 0, 0, NoAlpha),
                             GpuCall("restoreDefaultFramebuffer", 0, 0, NoAlpha),
                             GpuCall("_releaseTexture", 0, 0, NoAlpha),
                             GpuCall("_swapAndDie", 0, 0, NoAlpha)>>]

\* The frame loop of an Engine.  _activeRenderLoops is the set of the
\* registered render functions and _frameHandler the id of the frame request
\* the engine believes pending (0: none).  The host's side: requests counts
\* the frame requests made so far (their ids are 1, 2, ...), pendingFrames
\* holds those neither fired nor cancelled.  scenes: the engine's scenes,
\* each with its postProcesses and its cameras' _postProcesses, which name
\* post processes by their index in postProcesses (0 is a null entry);
\* releasedWrappers: the wrappers released so far, cleared: the post
\* processes whose _outputTexture the last release set to null.
\* _RescalePostProcessFactory: the static factory is set; _rescalePostProcess:
\* the engine has its rescale post process, effectCompiled: the effect of
\* that post process is compiled; rescales: the _rescaleTexture calls made,
\* whenCompiled: the calls whose callback waits for the effect, rescaleLog:
\* what the calls and their callbacks did.  reads: the _readPixelsAsync
\* calls made.  inRenderLoop: _renderLoop is
\* between beginFrame and endFrame; soleRequest: no other request was
\* pending when this _renderLoop started.  log: the frame calls made.
NoRequester == [present |-> FALSE, cancelAnimationFrame |-> FALSE, requestID |-> 0]

NoEngine ==
    [_frameHandler |-> 0,
     _activeRenderLoops |-> {},
     _contextWasLost |-> FALSE,
     isDisposed |-> FALSE,
     renderEvenInBackground |-> TRUE,
     _windowIsBackground |-> FALSE,
     customAnimationFrameRequester |-> NoRequester,
     requests |-> 0,
     pendingFrames |-> {},
     inRenderLoop |-> FALSE,
     soleRequest |-> FALSE,
     frames |-> 0,
     log |-> <<>>,
     scenes |-> <<>>,
     postProcesses |-> <<>>,
     releasedWrappers |-> {},
     cleared |-> {},
     _RescalePostProcessFactory |-> FALSE,
     _rescalePostProcess |-> FALSE,
     effectCompiled |-> FALSE,
     rescales |-> <<>>,
     whenCompiled |-> <<>>,
     rescaleLog |-> <<>>,
     _webGLVersion |-> 2,
     reads |-> <<>>]

FrameCall(name, frame, value) == [event |-> name, frame |-> frame, returned |-> value]

\* this._queueNewFrame(...) and the assignment of its result to _frameHandler
\* (and to the requester's requestID when there is a custom requester)
queueNewFrame(e) ==
    [e EXCEPT !.requests = @ + 1,
              !.pendingFrames = @ \cup {e.requests + 1},
              !._frameHandler = e.requests + 1,
              !.customAnimationFrameRequester.requestID =
                   IF e.customAnimationFrameRequester.present THEN e.requests + 1 ELSE @]

\* _cancelFrame(): with a custom requester the handler is reset and the
\* request cancelled only if the requester has a cancelAnimationFrame;
\* without one the base class cancels the pending request
_cancelFrame(e) ==
    IF e.customAnimationFrameRequester.present
    THEN IF e._frameHandler # 0
         THEN [e EXCEPT !._frameHandler = 0,
                        !.pendingFrames =
                             IF e.customAnimationFrameRequester.cancelAnimationFrame
                             THEN @ \ {e.customAnimationFrameRequester.requestID}
                             ELSE @]
         ELSE e
    ELSE IF e._frameHandler # 0
         THEN [e EXCEPT !._frameHandler = 0, !.pendingFrames = @ \ {e._frameHandler}]
         ELSE e

\* runRenderLoop(renderFunction): registers the function and, for the first
\* one, queues a frame unless one is queued
runRenderLoop(e, renderFunction) ==
    IF renderFunction \in e._activeRenderLoops THEN e
    ELSE LET added == [e EXCEPT !._activeRenderLoops = @ \cup {renderFunction}]
         IN  IF Cardinality(added._activeRenderLoops) = 1 /\ added._frameHandler = 0
             THEN queueNewFrame(added)
             ELSE added

\* stopRenderLoop(renderFunction), or stopRenderLoop() for renderFunction 0:
\* unregisters and cancels the frame when no function is left
stopRenderLoop(e, renderFunction) ==
    IF renderFunction = 0
    THEN _cancelFrame([e EXCEPT !._activeRenderLoops = {}])
    ELSE IF renderFunction \in e._activeRenderLoops
         THEN LET removed == [e EXCEPT !._activeRenderLoops = @ \ {renderFunction}]
              IN  IF removed._activeRenderLoops = {} THEN _cancelFrame(removed) ELSE removed
         ELSE e

shouldRender(e) ==
    /\ ~e._contextWasLost
    /\ ~(e.isDisposed \/ (~e.renderEvenInBackground /\ e._windowIsBackground))

\* The last statement of _renderLoop
renderLoopEnd(e) ==
    IF e._activeRenderLoops # {} /\ e._frameHandler = 0 THEN queueNewFrame(e) ELSE e

\* Variant: endFrame is skipped when the views were rendered
renderLoopFrame_EndsMainFrameOnly(e, viewsRendered) ==
    LET frame == e.frames
    IN  [e EXCEPT !.log = @ \o (IF viewsRendered THEN <<>>
                                ELSE <<FrameCall("_renderFrame", frame, FALSE),
                                       FrameCall("endFrame", frame, FALSE)>>)]

\* _renderViews() has returned viewsRendered: _renderFrame() unless it is
\* true, then endFrame()
renderLoopFrame(e, viewsRendered) ==
    LET frame == e.frames
    IN  [e EXCEPT !.log = @ \o (IF viewsRendered THEN <<>>
                                ELSE <<FrameCall("_renderFrame", frame, FALSE)>>)
                            \o <<FrameCall("endFrame", frame, FALSE)>>]

\* _renderLoop() up to its call of _renderViews(), or as a whole when
\* nothing is rendered; request is the frame request that fired
renderLoopBegin(e, request) ==
    LET started == [e EXCEPT !._frameHandler = 0,
                             !.pendingFrames = @ \ {request},
                             !.soleRequest = (e.pendingFrames = {request}),
                             !.frames = @ + 1]
    IN  IF shouldRender(started)
        THEN [started EXCEPT !.inRenderLoop = TRUE,
                             !.log = @ \o <<FrameCall("beginFrame", started.frames, FALSE)>>]
        ELSE renderLoopEnd(started)

\* The caller's matrix and pre-allocated planes, before any call.  priorPlanes
\* is a set of pairs: what the planes of slots 0..5 hold, and what the planes
\* of the further entries of the array hold.
Inputs(priorPlanes) ==
    /\ transform \in Matrices
    /\ zeroLengthPolicy \in Policies
    /\ \E prior \in priorPlanes :
          heap = [id \in 1..ArrayLength |-> IF id <= 6 THEN prior[1] ELSE prior[2]]
    /\ frustumPlanes = [i \in 0..(ArrayLength - 1) |-> i + 1]
    /\ returned = NoArray
    /\ allocCalls = 0
    /\ lastCall = NoCall
    /\ result = FALSE
    /\ evaluated = <<>>
    /\ invocations = <<>>
    /\ hdr = HDRFiltering(TRUE)
    /\ filtering = NoFiltering
    /\ engine = NoEngine

Init ==
    /\ Inputs({<<prior, prior>> : prior \in PriorPlanes})
    /\ point = NoPoint

\* The plane a single-plane extraction is given: the caller's plane right
\* after the six slots
TargetPlane == frustumPlanes[6]

SinglePlaneCall(name, newHeap) ==
    /\ heap' = newHeap
    /\ lastCall' = [name |-> name, target |-> TargetPlane, array |-> "none"]
    /\ UNCHANGED <<otherVars, transform, zeroLengthPolicy, frustumPlanes, returned, allocCalls,
                   point, result, evaluated>>

CallGetNearPlaneToRef ==
    SinglePlaneCall("GetNearPlaneToRef", GetNearPlaneToRef(heap, transform, TargetPlane))

CallGetFarPlaneToRef ==
    SinglePlaneCall("GetFarPlaneToRef", GetFarPlaneToRef(heap, transform, TargetPlane))

CallGetLeftPlaneToRef ==
    SinglePlaneCall("GetLeftPlaneToRef", GetLeftPlaneToRef(heap, transform, TargetPlane))

CallGetRightPlaneToRef ==
    SinglePlaneCall("GetRightPlaneToRef", GetRightPlaneToRef(heap, transform, TargetPlane))

CallGetTopPlaneToRef ==
    SinglePlaneCall("GetTopPlaneToRef", GetTopPlaneToRef(heap, transform, TargetPlane))

CallGetBottomPlaneToRef ==
    SinglePlaneCall("GetBottomPlaneToRef", GetBottomPlaneToRef(heap, transform, TargetPlane))

CallGetPlanesToRef ==
    /\ heap' = GetPlanesToRef(heap, transform, frustumPlanes)
    /\ lastCall' = [name |-> "GetPlanesToRef", target |-> 0, array |-> "frustumPlanes"]
    /\ result' = FALSE
    /\ evaluated' = <<>>
    /\ UNCHANGED <<otherVars, transform, zeroLengthPolicy, frustumPlanes, returned, allocCalls, point>>

CallGetPlanes ==
    /\ allocCalls < MaxGetPlanesCalls
    /\ LET r == GetPlanes(heap, transform)
       IN  /\ heap' = r.heap
           /\ returned' = r.frustumPlanes
    /\ allocCalls' = allocCalls + 1
    /\ lastCall' = [name |-> "GetPlanes", target |-> 0, array |-> "returned"]
    /\ result' = FALSE
    /\ evaluated' = <<>>
    /\ UNCHANGED <<otherVars, transform, zeroLengthPolicy, frustumPlanes, point>>

Next ==
    \/ CallGetNearPlaneToRef
    \/ CallGetFarPlaneToRef
    \/ CallGetLeftPlaneToRef
    \/ CallGetRightPlaneToRef
    \/ CallGetTopPlaneToRef
    \/ CallGetBottomPlaneToRef
    \/ CallGetPlanesToRef
    \/ CallGetPlanes

\* The extraction functions called in any order on the caller's planes
Spec == Init /\ [][Next]_vars

----------------------------------------------------------------------------
(* The containment test: the point is an input too *)

PointInit ==
    /\ Inputs({<<UsedPlane, RejectingPlane>>})
    /\ point \in Points

\* IsPointInFrustum(point, planes) on the caller's array, whose planes hold
\* what the caller put there, or on an array that GetPlanes returned
CallIsPointInFrustum ==
    \E array \in {"frustumPlanes", "returned"} :
        /\ array = "returned" => returned # NoArray
        /\ LET planesArray == IF array = "returned" THEN returned ELSE frustumPlanes
           IN  /\ result' = IsPointInFrustum(heap, point, planesArray)
               /\ evaluated' = IsPointInFrustumCalls(heap, point, planesArray)
               /\ heap' = IsPointInFrustumHeap(heap, point, planesArray)
        /\ lastCall' = [name |-> "IsPointInFrustum", target |-> 0, array |-> array]
        /\ UNCHANGED <<otherVars, transform, zeroLengthPolicy, frustumPlanes, returned,
                       allocCalls, point>>

PointNext ==
    \/ CallGetPlanes
    \/ CallIsPointInFrustum

PointSpec == PointInit /\ [][PointNext]_vars

\* The same calls for the three base matrices only: for properties whose
\* check is costly per state or per step
PermInit ==
    /\ PointInit
    /\ transform \in BaseMatrices

PermSpec == PermInit /\ [][PointNext]_vars

----------------------------------------------------------------------------
(* Vocabulary of the properties *)

Sgn(k) == IF k > 0 THEN 1 ELSE IF k < 0 THEN -1 ELSE 0

\* a and b denote the same real number
ScalarEq(a, b) == /\ Sgn(a.n) = Sgn(b.n)
                  /\ a.n * a.n * b.q = b.n * b.n * a.q

IsZero(a) == a.n = 0

PlaneEq(p1, p2) == /\ ScalarEq(p1.normal.x, p2.normal.x)
                   /\ ScalarEq(p1.normal.y, p2.normal.y)
                   /\ ScalarEq(p1.normal.z, p2.normal.z)
                   /\ ScalarEq(p1.d, p2.d)

SinglePlaneNames == {"GetNearPlaneToRef", "GetFarPlaneToRef", "GetLeftPlaneToRef",
                     "GetRightPlaneToRef", "GetTopPlaneToRef", "GetBottomPlaneToRef"}

\* The function that fills slot k of GetPlanesToRef, in the documented order
SlotName(k) == CASE k = 0 -> "GetNearPlaneToRef"
                 [] k = 1 -> "GetFarPlaneToRef"
                 [] k = 2 -> "GetLeftPlaneToRef"
                 [] k = 3 -> "GetRightPlaneToRef"
                 [] k = 4 -> "GetTopPlaneToRef"
                 [] k = 5 -> "GetBottomPlaneToRef"

\* The documented raw coefficients <<nx, ny, nz, d>> of each plane
RawCoefficients(name, m) ==
    CASE name = "GetNearPlaneToRef"   -> <<m[3] + m[2], m[7] + m[6], m[11] + m[10], m[15] + m[14]>>
      [] name = "GetFarPlaneToRef"    -> <<m[3] - m[2], m[7] - m[6], m[11] - m[10], m[15] - m[14]>>
      [] name = "GetLeftPlaneToRef"   -> <<m[3] + m[0], m[7] + m[4], m[11] + m[8], m[15] + m[12]>>
      [] name = "GetRightPlaneToRef"  -> <<m[3] - m[0], m[7] - m[4], m[11] - m[8], m[15] - m[12]>>
      [] name = "GetTopPlaneToRef"    -> <<m[3] - m[1], m[7] - m[5], m[11] - m[9], m[15] - m[13]>>
      [] name = "GetBottomPlaneToRef" -> <<m[3] + m[1], m[7] + m[5], m[11] + m[9], m[15] + m[13]>>

\* Squared length of the raw normal
RawLengthSquared(name, m) ==
    LET r == RawCoefficients(name, m) IN r[1] * r[1] + r[2] * r[2] + r[3] * r[3]

\* No plane of the matrix has a zero raw normal
NonDegenerate(m) == \A name \in SinglePlaneNames : RawLengthSquared(name, m) # 0

\* The scalar s is the integer r divided by sqrt(lengthSquared)
IsQuotient(s, r, lengthSquared) ==
    /\ Sgn(s.n) = Sgn(r)
    /\ s.n * s.n * lengthSquared = r * r * s.q

\* The plane is <<nx, ny, nz, d>> = r divided by the length of (nx, ny, nz)
IsNormalizedRaw(plane, r) ==
    LET lengthSquared == r[1] * r[1] + r[2] * r[2] + r[3] * r[3]
    IN  /\ IsQuotient(plane.normal.x, r[1], lengthSquared)
        /\ IsQuotient(plane.normal.y, r[2], lengthSquared)
        /\ IsQuotient(plane.normal.z, r[3], lengthSquared)
        /\ IsQuotient(plane.d, r[4], lengthSquared)

\* nx^2 + ny^2 + nz^2 = 1
HasUnitNormal(plane) ==
    LET nx == plane.normal.x
        ny == plane.normal.y
        nz == plane.normal.z
    IN  nx.n * nx.n * ny.q * nz.q + ny.n * ny.n * nx.q * nz.q + nz.n * nz.n * nx.q * ny.q
            = nx.q * ny.q * nz.q

\* What the named single-plane function leaves in plane object id of heap h
SinglePlaneResult(name, h, id) ==
    CASE name = "GetNearPlaneToRef"   -> GetNearPlaneToRef(h, transform, id)[id]
      [] name = "GetFarPlaneToRef"    -> GetFarPlaneToRef(h, transform, id)[id]
      [] name = "GetLeftPlaneToRef"   -> GetLeftPlaneToRef(h, transform, id)[id]
      [] name = "GetRightPlaneToRef"  -> GetRightPlaneToRef(h, transform, id)[id]
      [] name = "GetTopPlaneToRef"    -> GetTopPlaneToRef(h, transform, id)[id]
      [] name = "GetBottomPlaneToRef" -> GetBottomPlaneToRef(h, transform, id)[id]

\* The array the last IsPointInFrustum call was given
TestedArray == IF lastCall.array = "returned" THEN returned ELSE frustumPlanes

SignedDistance(i) == dotCoordinate(heap[TestedArray[i]], point)

----------------------------------------------------------------------------
(* Two extraction calls in progress at once, each advancing by one          *)
(* assignment to a plane field at a time                                    *)

\* Each single-plane function assigns, for k = 0 (normal.x), 1 (normal.y),
\* 2 (normal.z), 3 (d), the entry m[3 + 4k] plus or minus the entry
\* m[c + 4k]: c and the sign are what the six functions differ in
CombinedEntry(name) == CASE name \in {"GetNearPlaneToRef", "GetFarPlaneToRef"} -> 2
                         [] name \in {"GetLeftPlaneToRef", "GetRightPlaneToRef"} -> 0
                         [] name \in {"GetTopPlaneToRef", "GetBottomPlaneToRef"} -> 1

CombinedSign(name) ==
    CASE name \in {"GetNearPlaneToRef", "GetLeftPlaneToRef", "GetBottomPlaneToRef"} -> 1
      [] name \in {"GetFarPlaneToRef", "GetRightPlaneToRef", "GetTopPlaneToRef"} -> -1

\* Variant: the entries are taken along the rows, m[12 + k] and m[4c + k]
RawValue_AlongRows(name, m, k) ==
    m[12 + k] + CombinedSign(name) * m[4 * CombinedEntry(name) + k]

\* The value of the k-th assignment of the named function
RawValue(name, m, k) ==
    m[3 + 4 * k] + CombinedSign(name) * m[CombinedEntry(name) + 4 * k]

GetField(plane, k) == CASE k = 0 -> plane.normal.x
                        [] k = 1 -> plane.normal.y
                        [] k = 2 -> plane.normal.z
                        [] k = 3 -> plane.d

SetField(h, id, k, value) == CASE k = 0 -> [h EXCEPT ![id].normal.x = value]
                               [] k = 1 -> [h EXCEPT ![id].normal.y = value]
                               [] k = 2 -> [h EXCEPT ![id].normal.z = value]
                               [] k = 3 -> [h EXCEPT ![id].d = value]

\* Variant: the coefficients are built in a temporary plane that all calls
\* share (the plane after slot 5) and copied to the target with the last one
AssignField_SharedTemporary(h, m, name, frustumPlane, k) ==
    LET h1 == SetField(h, 6 + 1, k, Num(RawValue(name, m, k)))
    IN  IF k = 3 THEN [h1 EXCEPT ![frustumPlane] = h1[6 + 1]] ELSE h1

\* The heap after the k-th assignment of the named function
AssignField(h, m, name, frustumPlane, k) ==
    SetField(h, frustumPlane, k, Num(RawValue(name, m, k)))

\* normalize() reads the normal once, before it scales any field
NoLength == [A |-> 0, B |-> 0]

normalizeLength(plane) ==
    LET nx == plane.normal.x
        ny == plane.normal.y
        nz == plane.normal.z
    IN  [A |-> nx.n * nx.n * ny.q * nz.q + ny.n * ny.n * nx.q * nz.q
                  + nz.n * nz.n * nx.q * ny.q,
         B |-> nx.q * ny.q * nz.q]

\* normalize() scaling field k by the length it read
normalizeField(h, this, k, length) ==
    LET f == GetField(h[this], k)
    IN  IF length.A = 0
        THEN IF zeroLengthPolicy = "zero" THEN SetField(h, this, k, Num(0)) ELSE h
        ELSE SetField(h, this, k, [n |-> f.n * length.B, q |-> f.q * length.A * length.B])

\* The single-plane calls GetPlanesToRef makes, in order, with their targets
GetPlanesToRefCalls(planesArray) ==
    << <<"GetNearPlaneToRef", planesArray[0]>>, <<"GetFarPlaneToRef", planesArray[1]>>,
       <<"GetLeftPlaneToRef", planesArray[2]>>, <<"GetRightPlaneToRef", planesArray[3]>>,
       <<"GetTopPlaneToRef", planesArray[4]>>, <<"GetBottomPlaneToRef", planesArray[5]>> >>

\* A call about to start: the function, the planes it is given, the
\* single-plane calls still to run (the first one being at assignment pc),
\* and whether it has taken a step while the other was inside a function
Invocation(function, planes) ==
    [function |-> function,
     planes |-> planes,
     todo |-> IF function = "GetPlanesToRef"
              THEN GetPlanesToRefCalls(planes)
              ELSE << <<function, planes[0]>> >>,
     pc |-> 0,
     length |-> NoLength,
     overlapped |-> FALSE]

\* The second caller's planes: six more after the first caller's array
SecondArray == [i \in 0..5 |-> ArrayLength + 1 + i]

ConcHeap == [id \in 1..(ArrayLength + 6) |-> UsedPlane]

\* The base matrices, and each with a second column that makes the raw
\* normal of the bottom plane shorter, or zero
ConcMatrices == BaseMatrices \cup {[b EXCEPT ![7] = -1] : b \in BaseMatrices}

ConcInit ==
    /\ transform \in ConcMatrices
    /\ zeroLengthPolicy \in Policies
    /\ heap = ConcHeap
    /\ frustumPlanes = [i \in 0..(ArrayLength - 1) |-> i + 1]
    /\ returned = NoArray
    /\ allocCalls = 0
    /\ lastCall = NoCall
    /\ point = NoPoint
    /\ result = FALSE
    /\ evaluated = <<>>
    /\ \E function \in SinglePlaneNames \cup {"GetPlanesToRef"} :
          invocations = <<Invocation("GetPlanesToRef", frustumPlanes),
                          Invocation(function, SecondArray)>>
    /\ hdr = HDRFiltering(TRUE)
    /\ filtering = NoFiltering
    /\ engine = NoEngine

Running(p) == invocations[p].todo # <<>>

InsideFunction(p) == Running(p) /\ invocations[p].pc # 0

\* Invocation p has made an assignment; 3 - p is the other invocation
Advance(p, finished) ==
    LET inv == invocations[p]
        overlapped == inv.overlapped \/ InsideFunction(3 - p)
    IN  invocations' =
          [invocations EXCEPT ![p] =
             IF finished
             THEN [inv EXCEPT !.todo = Tail(inv.todo), !.pc = 0, !.length = NoLength,
                              !.overlapped = overlapped]
             ELSE [inv EXCEPT !.pc = inv.pc + 1, !.overlapped = overlapped]]

\* frustumPlane.normal.x = ..., .normal.y = ..., .normal.z = ..., .d = ...
AssignRawField(p) ==
    /\ Running(p)
    /\ invocations[p].pc \in 0..3
    /\ LET call == Head(invocations[p].todo)
       IN  heap' = AssignField(heap, transform, call[1], call[2], invocations[p].pc)
    /\ Advance(p, FALSE)
    /\ UNCHANGED <<transform, zeroLengthPolicy, frustumPlanes, returned, allocCalls,
                   lastCall, point, result, evaluated, hdr, filtering, engine>>

\* frustumPlane.normalize(), reading the normal
ReadLength(p) ==
    /\ Running(p)
    /\ invocations[p].pc = 4
    /\ LET inv == invocations[p]
           length == normalizeLength(heap[Head(inv.todo)[2]])
       IN  invocations' =
             [invocations EXCEPT ![p] =
                [inv EXCEPT !.pc = 5, !.length = length,
                            !.overlapped = inv.overlapped \/ InsideFunction(3 - p)]]
    /\ UNCHANGED <<frustumVars, hdr, filtering, engine>>

\* frustumPlane.normalize(), scaling one field
ScaleField(p) ==
    /\ Running(p)
    /\ invocations[p].pc \in 5..8
    /\ LET inv == invocations[p]
       IN  heap' = normalizeField(heap, Head(inv.todo)[2], inv.pc - 5, inv.length)
    /\ Advance(p, invocations[p].pc = 8)
    /\ UNCHANGED <<transform, zeroLengthPolicy, frustumPlanes, returned, allocCalls,
                   lastCall, point, result, evaluated, hdr, filtering, engine>>

ConcNext ==
    \/ \E p \in {1, 2} : AssignRawField(p)
    \/ \E p \in {1, 2} : ReadLength(p)
    \/ \E p \in {1, 2} : ScaleField(p)

ConcSpec == ConcInit /\ [][ConcNext]_vars

----------------------------------------------------------------------------
(* HDRFiltering.prefilter on one instance                                   *)

Textures == 1..MaxTextures

\* No frustum is in use
NoFrustum ==
    /\ transform = IdentityMatrix
    /\ zeroLengthPolicy = "zero"
    /\ heap = <<>>
    /\ frustumPlanes = NoArray
    /\ returned = NoArray
    /\ allocCalls = 0
    /\ lastCall = NoCall
    /\ point = NoPoint
    /\ result = FALSE
    /\ evaluated = <<>>
    /\ invocations = <<>>

HdrInit ==
    /\ NoFrustum
    /\ \E allowTexturePrefiltering \in BOOLEAN : hdr = HDRFiltering(allowTexturePrefiltering)
    /\ filtering = NoFiltering
    /\ engine = NoEngine

CallPrefilter ==
    /\ Len(hdr.calls) < MaxPrefilterCalls
    /\ \E texture \in Textures : \E hasOnFinished, ready \in BOOLEAN :
          hdr' = prefilter(hdr, texture, hasOnFinished, ready)
    /\ UNCHANGED <<frustumVars, invocations, filtering, engine>>

\* The effect of a call's wrapper finishes compiling and runs the callback
\* that executeWhenCompiled registered
EffectCompiled ==
    \E call \in DOMAIN hdr.calls :
        /\ hdr.calls[call].promise = "pending"
        /\ ~hdr.calls[call].ran
        /\ hdr' = compiledCallback(hdr, call)
        /\ UNCHANGED <<frustumVars, invocations, filtering, engine>>

HdrNext ==
    \/ CallPrefilter
    \/ EffectCompiled

HdrSpec == HdrInit /\ [][HdrNext]_vars

----------------------------------------------------------------------------
(* HDRFiltering._prefilterInternal, one loop iteration at a time             *)

\* All but the frustum's variables and filtering are as no call left them
DrawInit ==
    /\ HdrInit
    /\ hdr = HDRFiltering(TRUE)

FilterBegin ==
    /\ filtering.pc = "none"
    /\ \E width \in 1..MaxWidth : \E intTexture \in BOOLEAN :
          filtering' = filterBegin(Filtering(width, intTexture))
    /\ UNCHANGED <<frustumVars, invocations, hdr, engine>>

\* for (let face = 0; face < 6; face++)
FaceBegin ==
    /\ filtering.pc = "face"
    /\ filtering.face < 6
    /\ filtering' = faceBegin(filtering)
    /\ UNCHANGED <<frustumVars, invocations, hdr, engine>>

\* for (let lod = 0; lod < mipmapsCount; lod++)
LodIteration ==
    /\ filtering.pc = "lod"
    /\ filtering.lod < filtering.mipmapsCount
    /\ filtering' = lodIteration(filtering)
    /\ UNCHANGED <<frustumVars, invocations, hdr, engine>>

FaceEnd ==
    /\ filtering.pc = "lod"
    /\ ~(filtering.lod < filtering.mipmapsCount)
    /\ filtering' = faceEnd(filtering)
    /\ UNCHANGED <<frustumVars, invocations, hdr, engine>>

FilterEnd ==
    /\ filtering.pc = "face"
    /\ ~(filtering.face < 6)
    /\ filtering' = filterEnd(filtering)
    /\ UNCHANGED <<frustumVars, invocations, hdr, engine>>

DrawNext ==
    \/ FilterBegin
    \/ FaceBegin
    \/ LodIteration
    \/ FaceEnd
    \/ FilterEnd

DrawSpec == DrawInit /\ [][DrawNext]_vars

----------------------------------------------------------------------------
(* Engine: the frame loop                                                    *)

RenderFunctions == 1..MaxRenderFunctions

Requesters == {NoRequester,
               [present |-> TRUE, cancelAnimationFrame |-> TRUE, requestID |-> 0],
               [present |-> TRUE, cancelAnimationFrame |-> FALSE, requestID |-> 0]}

LoopInit ==
    /\ NoFrustum
    /\ hdr = HDRFiltering(TRUE)
    /\ filtering = NoFiltering
    /\ \E lost, disposed, evenInBackground, background \in BOOLEAN :
       \E requester \in Requesters :
          engine = [NoEngine EXCEPT !._contextWasLost = lost,
                                    !.isDisposed = disposed,
                                    !.renderEvenInBackground = evenInBackground,
                                    !._windowIsBackground = background,
                                    !.customAnimationFrameRequester = requester]

\* The application, or a render function or observer while a frame is
\* being rendered, calls runRenderLoop
RunRenderLoop ==
    /\ engine.requests < MaxFrameRequests
    /\ \E renderFunction \in RenderFunctions :
          engine' = runRenderLoop(engine, renderFunction)
    /\ UNCHANGED <<frustumVars, invocations, hdr, filtering>>

StopRenderLoop ==
    /\ \E renderFunction \in RenderFunctions \cup {0} :
          engine' = stopRenderLoop(engine, renderFunction)
    /\ UNCHANGED <<frustumVars, invocations, hdr, filtering>>

\* A pending frame request fires and the host calls _renderLoop
RenderLoopBegin ==
    /\ ~engine.inRenderLoop
    /\ engine.frames < MaxFrames
    /\ engine.requests < MaxFrameRequests
    /\ \E request \in engine.pendingFrames :
          engine' = renderLoopBegin(engine, request)
    /\ UNCHANGED <<frustumVars, invocations, hdr, filtering>>

\* _renderViews() returns and _renderLoop runs to its end
RenderLoopEnd ==
    /\ engine.inRenderLoop
    /\ (engine._activeRenderLoops # {} /\ engine._frameHandler = 0)
          => engine.requests < MaxFrameRequests
    /\ \E viewsRendered \in BOOLEAN :
          engine' = [renderLoopEnd(renderLoopFrame(
                         [engine EXCEPT !.log = @ \o <<FrameCall("_renderViews", engine.frames,
                                                                 viewsRendered)>>],
                         viewsRendered))
                     EXCEPT !.inRenderLoop = FALSE]
    /\ UNCHANGED <<frustumVars, invocations, hdr, filtering>>

LoopNext ==
    \/ RunRenderLoop
    \/ StopRenderLoop
    \/ RenderLoopBegin
    \/ RenderLoopEnd

LoopSpec == LoopInit /\ [][LoopNext]_vars

\* Engine._releaseRenderTargetWrapper.  A render target wrapper is named by
\* a number in 1..MaxWrappers, null by 0.

\* scene.postProcesses.forEach(...)
RECURSIVE forEachPostProcess(_, _, _)
forEachPostProcess(postProcesses, list, rtWrapper) ==
    IF list = <<>> THEN postProcesses
    ELSE forEachPostProcess(
             IF postProcesses[Head(list)]._outputTexture = rtWrapper
             THEN [postProcesses EXCEPT ![Head(list)]._outputTexture = 0]
             ELSE postProcesses,
             Tail(list), rtWrapper)

\* camera._postProcesses.forEach(...), whose entries may be null
RECURSIVE forEachCameraPostProcess(_, _, _)
forEachCameraPostProcess(postProcesses, list, rtWrapper) ==
    IF list = <<>> THEN postProcesses
    ELSE forEachCameraPostProcess(
             IF Head(list) # 0
             THEN IF postProcesses[Head(list)]._outputTexture = rtWrapper
                  THEN [postProcesses EXCEPT ![Head(list)]._outputTexture = 0]
                  ELSE postProcesses
             ELSE postProcesses,
             Tail(list), rtWrapper)

\* scene.cameras.forEach(...)
RECURSIVE forEachCamera(_, _, _)
forEachCamera(postProcesses, cameras, rtWrapper) ==
    IF cameras = <<>> THEN postProcesses
    ELSE forEachCamera(
             forEachCameraPostProcess(postProcesses, Head(cameras)._postProcesses, rtWrapper),
             Tail(cameras), rtWrapper)

\* Variant: the cameras of a scene are not visited
RECURSIVE forEachScene_SkipsCameras(_, _, _)
forEachScene_SkipsCameras(postProcesses, scenes, rtWrapper) ==
    IF scenes = <<>> THEN postProcesses
    ELSE forEachScene_SkipsCameras(
             forEachPostProcess(postProcesses, Head(scenes).postProcesses, rtWrapper),
             Tail(scenes), rtWrapper)

\* this.scenes.forEach(...)
RECURSIVE forEachScene(_, _, _)
forEachScene(postProcesses, scenes, rtWrapper) ==
    IF scenes = <<>> THEN postProcesses
    ELSE forEachScene(
             forEachCamera(
                 forEachPostProcess(postProcesses, Head(scenes).postProcesses, rtWrapper),
                 Head(scenes).cameras, rtWrapper),
             Tail(scenes), rtWrapper)

_releaseRenderTargetWrapper(e, rtWrapper) ==
    LET after == forEachScene(e.postProcesses, e.scenes, rtWrapper)
    IN  [e EXCEPT !.releasedWrappers = @ \cup {rtWrapper},
                  !.postProcesses = after,
                  !.cleared = {postProcess \in DOMAIN after :
                                  after[postProcess] # e.postProcesses[postProcess]}]

\* Where a post process is attached: to the postProcesses of a scene, to the
\* camera of a scene, or to nothing the engine reaches (scene 0)
Places ==
    {[scene |-> scene, camera |-> camera] : scene \in 1..MaxScenes, camera \in BOOLEAN}
       \cup {[scene |-> 0, camera |-> FALSE]}

\* The post processes attached at a place, in creation order
RECURSIVE Attached(_, _, _)
Attached(place, where, count) ==
    IF count = 0 THEN <<>>
    ELSE Attached(place, where, count - 1)
            \o (IF place[count] = where THEN <<count>> ELSE <<>>)

\* The scenes of an engine whose post processes are attached as place says;
\* every camera's list starts with a null entry
Scenes(place) ==
    [scene \in 1..MaxScenes |->
        [postProcesses |-> Attached(place, [scene |-> scene, camera |-> FALSE], MaxPostProcesses),
         cameras |-> <<[_postProcesses |->
                          <<0>> \o Attached(place, [scene |-> scene, camera |-> TRUE],
                                            MaxPostProcesses)]>>]]

ReleaseInit ==
    /\ NoFrustum
    /\ hdr = HDRFiltering(TRUE)
    /\ filtering = NoFiltering
    /\ \E place \in [1..MaxPostProcesses -> Places] :
       \E outputs \in [1..MaxPostProcesses -> 0..MaxWrappers] :
          engine = [NoEngine EXCEPT
                       !.scenes = Scenes(place),
                       !.postProcesses = [postProcess \in 1..MaxPostProcesses |->
                                             [_outputTexture |-> outputs[postProcess]]]]

\* A render target wrapper is released (once: releasing disposes it)
ReleaseRenderTargetWrapper ==
    /\ \E rtWrapper \in (1..MaxWrappers) \ engine.releasedWrappers :
          engine' = _releaseRenderTargetWrapper(engine, rtWrapper)
    /\ UNCHANGED <<frustumVars, invocations, hdr, filtering>>

ReleaseNext == ReleaseRenderTargetWrapper

ReleaseSpec == ReleaseInit /\ [][ReleaseNext]_vars

\* Engine._rescaleTexture.  The render target texture of the call-th call is
\* named by call.

RescaleEvent(name, call, texture) == [event |-> name, call |-> call, texture |-> texture]

\* The callback given to executeWhenCompiled by the call-th call
rescaleCompiled(e, call) ==
    [e EXCEPT !.rescaleLog = @ \o
        <<RescaleEvent("directRender", call, e.rescales[call].source),
          RescaleEvent("copyTexImage2D", call, e.rescales[call].destination),
          RescaleEvent("unBindFramebuffer", call, call),
          RescaleEvent("dispose", call, call)>>
        \o (IF e.rescales[call].onComplete
            THEN <<RescaleEvent("onComplete", call, 0)>> ELSE <<>>)]

\* effect.executeWhenCompiled(callback): at once when the effect is compiled,
\* otherwise when it becomes so
executeWhenCompiled(e, call) ==
    IF e.effectCompiled THEN rescaleCompiled(e, call)
    ELSE [e EXCEPT !.whenCompiled = Append(@, call)]

_rescaleTexture(e, source, destination, onComplete) ==
    LET call == Len(e.rescales) + 1
        created == [e EXCEPT !.rescales = Append(@, [source |-> source,
                                                     destination |-> destination,
                                                     onComplete |-> onComplete]),
                             !.rescaleLog = Append(@, RescaleEvent("createRenderTargetTexture",
                                                                   call, call)),
                             !._rescalePostProcess = @ \/ e._RescalePostProcessFactory]
    IN  IF created._rescalePostProcess THEN executeWhenCompiled(created, call) ELSE created

\* The callbacks waiting for the effect run in the order they were given
RECURSIVE runWhenCompiled(_)
runWhenCompiled(e) ==
    IF e.whenCompiled = <<>> THEN e
    ELSE runWhenCompiled(rescaleCompiled([e EXCEPT !.whenCompiled = Tail(@)],
                                         Head(e.whenCompiled)))

RescaleInit ==
    /\ NoFrustum
    /\ hdr = HDRFiltering(TRUE)
    /\ filtering = NoFiltering
    /\ \E factory \in BOOLEAN :
          engine = [NoEngine EXCEPT !._RescalePostProcessFactory = factory]

RescaleTexture ==
    /\ Len(engine.rescales) < MaxRescaleCalls
    /\ \E source, destination \in 1..MaxTextures : \E onComplete \in BOOLEAN :
          engine' = _rescaleTexture(engine, source, destination, onComplete)
    /\ UNCHANGED <<frustumVars, invocations, hdr, filtering>>

\* The effect of the rescale post process becomes compiled
RescaleEffectCompiled ==
    /\ engine._rescalePostProcess
    /\ ~engine.effectCompiled
    /\ engine' = runWhenCompiled([engine EXCEPT !.effectCompiled = TRUE])
    /\ UNCHANGED <<frustumVars, invocations, hdr, filtering>>

RescaleNext == RescaleTexture \/ RescaleEffectCompiled

\* An effect that is being compiled becomes compiled
RescaleSpec == RescaleInit /\ [][RescaleNext]_vars /\ WF_vars(RescaleEffectCompiled)

\* Engine._readPixelsAsync and Engine._clientWaitAsync.  One record per
\* _readPixelsAsync call: how often its buffer and its sync object were
\* created and deleted, what the call did (threw, returned null, or returned
\* the promise), the state of the promise of _clientWaitAsync, the number of
\* clientWaitSync polls and of pending timers, whether a poll ran after
\* resolve or reject was called, whether the callback given to then has
\* run, and the results of the polls with the calls that followed them.
NoRead ==
    [bufCreated |-> 0, bufDeleted |-> 0, syncCreated |-> 0, syncDeleted |-> 0,
     did |-> "threw", promise |-> "none", polls |-> 0, timers |-> 0,
     polledSettled |-> FALSE, thenRan |-> FALSE, waitLog |-> <<>>]

WaitResults == {"WAIT_FAILED", "TIMEOUT_EXPIRED", "CONDITION_SATISFIED", "ALREADY_SIGNALED"}

\* resolve() or reject() of the promise: only the first call settles it
settle(read, call, state) ==
    [read EXCEPT !.waitLog = Append(@, call),
                 !.promise = IF @ = "pending" THEN state ELSE @]

polled(read, res) ==
    [read EXCEPT !.polls = @ + 1,
                 !.polledSettled = @ \/ read.promise # "pending",
                 !.waitLog = Append(@, res)]

\* Variant: the TIMEOUT_EXPIRED branch does not return
check_FallsThrough(read, res) ==
    IF res = "WAIT_FAILED" THEN settle(polled(read, res), "reject", "rejected")
    ELSE IF res = "TIMEOUT_EXPIRED"
         THEN settle([polled(read, res) EXCEPT !.timers = @ + 1,
                                               !.waitLog = Append(@, "setTimeout")],
                     "resolve", "resolved")
         ELSE settle(polled(read, res), "resolve", "resolved")

\* check(), for the result res of gl.clientWaitSync
check(read, res) ==
    IF res = "WAIT_FAILED" THEN settle(polled(read, res), "reject", "rejected")
    ELSE IF res = "TIMEOUT_EXPIRED"
         THEN [polled(read, res) EXCEPT !.timers = @ + 1,
                                        !.waitLog = Append(@, "setTimeout")]
         ELSE settle(polled(read, res), "resolve", "resolved")

_clientWaitAsync(read, res) == check([read EXCEPT !.promise = "pending"], res)

\* _readPixelsAsync up to its return; fence: gl.fenceSync returned a sync
\* object; res: the result of the first poll
_readPixelsAsync(e, fence, res) ==
    IF e._webGLVersion < 2
    THEN [e EXCEPT !.reads = Append(@, NoRead)]
    ELSE LET buffered == [NoRead EXCEPT !.bufCreated = 1]
         IN  IF ~fence
             THEN [e EXCEPT !.reads = Append(@, [buffered EXCEPT !.did = "null"])]
             ELSE [e EXCEPT !.reads = Append(@,
                      _clientWaitAsync([buffered EXCEPT !.syncCreated = 1,
                                                        !.did = "promise"], res))]

\* The callback given to then
readPixelsThen(read) ==
    [read EXCEPT !.syncDeleted = @ + 1, !.bufDeleted = @ + 1, !.thenRan = TRUE]

ReadInit ==
    /\ NoFrustum
    /\ hdr = HDRFiltering(TRUE)
    /\ filtering = NoFiltering
    /\ \E version \in 1..2 : engine = [NoEngine EXCEPT !._webGLVersion = version]

\* The results a poll can have: the sync object stops returning
\* TIMEOUT_EXPIRED after MaxPolls polls
PollResults(polls) ==
    IF polls < MaxPolls THEN WaitResults ELSE WaitResults \ {"TIMEOUT_EXPIRED"}

ReadPixelsAsync ==
    /\ Len(engine.reads) < MaxReadCalls
    /\ \E fence \in BOOLEAN : \E res \in PollResults(0) :
          engine' = _readPixelsAsync(engine, fence, res)
    /\ UNCHANGED <<frustumVars, invocations, hdr, filtering>>

\* A timer set by check fires and check runs again
TimerFires ==
    /\ \E call \in DOMAIN engine.reads :
          /\ engine.reads[call].timers > 0
          /\ \E res \in PollResults(engine.reads[call].polls) :
                engine' = [engine EXCEPT !.reads[call] =
                              check([@ EXCEPT !.timers = @ - 1], res)]
    /\ UNCHANGED <<frustumVars, invocations, hdr, filtering>>

\* The promise of _clientWaitAsync is resolved and the callback runs
ReadPixelsThen ==
    /\ \E call \in DOMAIN engine.reads :
          /\ engine.reads[call].promise = "resolved"
          /\ ~engine.reads[call].thenRan
          /\ engine' = [engine EXCEPT !.reads[call] = readPixelsThen(@)]
    /\ UNCHANGED <<frustumVars, invocations, hdr, filtering>>

ReadNext == ReadPixelsAsync \/ TimerFires \/ ReadPixelsThen

\* Timers fire, and the callbacks of a resolved promise run
ReadSpec == ReadInit /\ [][ReadNext]_vars /\ WF_vars(TimerFires) /\ WF_vars(ReadPixelsThen)

----------------------------------------------------------------------------
(* C1: a single-plane extraction from a matrix whose raw normal for that    *)
(* plane is non-zero leaves the target plane equal to the documented raw    *)
(* coefficients divided by the length of the raw normal.                    *)

C1_SinglePlaneIsRawOverLength ==
    (lastCall.name \in SinglePlaneNames /\ RawLengthSquared(lastCall.name, transform) # 0)
        => IsNormalizedRaw(heap[lastCall.target], RawCoefficients(lastCall.name, transform))

C1_Witness ==
    /\ lastCall.name = "GetRightPlaneToRef"
    /\ RawLengthSquared(lastCall.name, transform) = 2
    /\ RawCoefficients(lastCall.name, transform)[4] # 0

(* C2: after GetPlanesToRef slots 0..5 hold the near, far, left, right, top *)
(* and bottom planes, each equal to what the single-plane function makes    *)
(* of the same matrix.                                                      *)

C2_SlotsInOrder ==
    lastCall.name = "GetPlanesToRef"
        => \A k \in 0..5 :
              PlaneEq(heap[frustumPlanes[k]], SinglePlaneResult(SlotName(k), heap, TargetPlane))

C2_Witness ==
    /\ lastCall.name = "GetPlanesToRef"
    /\ \A j, k \in 0..5 : j # k => ~PlaneEq(heap[frustumPlanes[j]], heap[frustumPlanes[k]])
    /\ transform # IdentityMatrix

(* C6: after an extraction from a non-degenerate matrix every extracted     *)
(* plane has a normal of length 1.                                          *)

C6_UnitNormals ==
    NonDegenerate(transform)
        => /\ lastCall.name \in SinglePlaneNames => HasUnitNormal(heap[lastCall.target])
           /\ lastCall.name = "GetPlanesToRef"
                => \A k \in 0..5 : HasUnitNormal(heap[frustumPlanes[k]])
           /\ lastCall.name = "GetPlanes"
                => \A k \in 0..5 : HasUnitNormal(heap[returned[k]])

C6_Witness ==
    /\ lastCall.name = "GetPlanesToRef"
    /\ NonDegenerate(transform)
    /\ \E k \in 0..5 : RawLengthSquared(SlotName(k), transform) \notin {0, 1}

(* C7: for the identity matrix the six planes are near (0,0,1), far         *)
(* (0,0,-1), left (1,0,0), right (-1,0,0), top (0,-1,0), bottom (0,1,0),    *)
(* each with d = 1.                                                         *)

C7_IdentityPlanes ==
    (transform = IdentityMatrix /\ lastCall.name \in {"GetPlanesToRef", "GetPlanes"})
        => LET a == IF lastCall.name = "GetPlanes" THEN returned ELSE frustumPlanes
           IN  /\ PlaneEq(heap[a[0]], Plane(0, 0, 1, 1))
               /\ PlaneEq(heap[a[1]], Plane(0, 0, -1, 1))
               /\ PlaneEq(heap[a[2]], Plane(1, 0, 0, 1))
               /\ PlaneEq(heap[a[3]], Plane(-1, 0, 0, 1))
               /\ PlaneEq(heap[a[4]], Plane(0, -1, 0, 1))
               /\ PlaneEq(heap[a[5]], Plane(0, 1, 0, 1))

C7_Witness ==
    /\ transform = IdentityMatrix
    /\ lastCall.name = "GetPlanes"
    /\ PlaneEq(heap[returned[4]], Plane(0, -1, 0, 1))

(* C8: the planes GetPlanes returns equal, slot for slot, those that        *)
(* GetPlanesToRef writes into six pre-allocated planes, for every matrix.   *)

C8_AllocatingEqualsInPlace ==
    lastCall.name = "GetPlanes"
        => \A k \in 0..5 :
              PlaneEq(heap[returned[k]],
                      GetPlanesToRef(heap, transform, frustumPlanes)[frustumPlanes[k]])

C8_Witness ==
    /\ lastCall.name = "GetPlanes"
    /\ ~PlaneEq(heap[frustumPlanes[0]], Plane(0, 0, 0, 0))
    /\ ~PlaneEq(heap[frustumPlanes[0]], heap[returned[0]])
    /\ ~NonDegenerate(transform)

(* C9: an extraction's result depends only on the matrix: it is what the    *)
(* same function leaves in a fresh plane, whatever the target held before,  *)
(* and repeating the extraction leaves the storage as it was.               *)

C9_FreshResult(name) == SinglePlaneResult(name, <<Plane(0, 0, 0, 0)>>, 1)

C9_ResultDependsOnMatrixOnly ==
    /\ [](/\ lastCall.name \in SinglePlaneNames
                => heap[lastCall.target] = C9_FreshResult(lastCall.name)
          /\ lastCall.name = "GetPlanesToRef"
                => \A k \in 0..5 : heap[frustumPlanes[k]] = C9_FreshResult(SlotName(k)))
    /\ [][(lastCall' = lastCall /\ lastCall.name \in SinglePlaneNames \cup {"GetPlanesToRef"})
              => heap' = heap]_vars

C9_Witness ==
    /\ lastCall.name = "GetTopPlaneToRef"
    /\ heap[frustumPlanes[0]] = UsedPlane
    /\ heap[lastCall.target] # heap[frustumPlanes[0]]

(* C10: an extraction leaves the matrix unchanged and writes only to its    *)
(* target: a single-plane extraction changes no other plane, and            *)
(* GetPlanesToRef changes only the planes of slots 0..5, not the array.     *)

C10_WritesOnlyTarget ==
    [][/\ transform' = transform
       /\ lastCall'.name \in SinglePlaneNames
            => /\ Len(heap') = Len(heap)
               /\ \A id \in 1..Len(heap) : id # lastCall'.target => heap'[id] = heap[id]
               /\ frustumPlanes' = frustumPlanes
       /\ lastCall'.name = "GetPlanesToRef"
            => /\ Len(heap') = Len(heap)
               /\ \A id \in 1..Len(heap) :
                     id \notin {frustumPlanes[k] : k \in 0..5} => heap'[id] = heap[id]
               /\ frustumPlanes' = frustumPlanes
       /\ lastCall'.name = "GetPlanes"
            => /\ \A id \in 1..Len(heap) : heap'[id] = heap[id]
               /\ frustumPlanes' = frustumPlanes]_vars

C10_Witness ==
    /\ lastCall.name = "GetPlanesToRef"
    /\ heap[frustumPlanes[6]] = UsedPlane
    /\ heap[frustumPlanes[5]] # UsedPlane

----------------------------------------------------------------------------
(* Clip coordinates of the point: the row vector (x, y, z, 1) times m *)

ClipCoordinate(c) ==
    point.x * transform[c] + point.y * transform[4 + c] + point.z * transform[8 + c]
        + transform[12 + c]

InClipVolume ==
    \A c \in 0..2 : /\ -ClipCoordinate(3) <= ClipCoordinate(c)
                    /\ ClipCoordinate(c) <= ClipCoordinate(3)

(* C3: for a non-degenerate matrix, IsPointInFrustum(p, GetPlanes(m)) is    *)
(* true exactly when the clip coordinates of p satisfy -cw <= cx, cy, cz    *)
(* <= cw: every extracted plane is oriented inward.                         *)

C3_InsideIffInClipVolume ==
    (/\ lastCall.name = "IsPointInFrustum"
     /\ lastCall.array = "returned"
     /\ NonDegenerate(transform))
        => (result <=> InClipVolume)

C3_Witness ==
    /\ lastCall.name = "IsPointInFrustum"
    /\ lastCall.array = "returned"
    /\ NonDegenerate(transform)
    /\ transform[11] = 1
    /\ result
    /\ point.x # 0

(* C4: IsPointInFrustum returns true if and only if the signed distance to  *)
(* each of the planes 0..5 is non-negative; one negative signed distance    *)
(* makes it false whatever the other five are.                              *)

C4_TrueIffAllNonNegative ==
    lastCall.name = "IsPointInFrustum"
        => (result <=> \A i \in 0..5 : ~IsNegative(SignedDistance(i)))

C4_Witness ==
    /\ lastCall.name = "IsPointInFrustum"
    /\ ~result
    /\ IsNegative(SignedDistance(5))
    /\ \A i \in 0..4 : ~IsNegative(SignedDistance(i)) /\ ~IsZero(SignedDistance(i))

(* C5: a point at signed distance exactly 0 from one plane and non-negative *)
(* from the other five is reported inside.                                  *)

C5_BoundaryIsInside ==
    (/\ lastCall.name = "IsPointInFrustum"
     /\ \E i \in 0..5 : IsZero(SignedDistance(i))
     /\ \A i \in 0..5 : ~IsNegative(SignedDistance(i)))
        => result

C5_Witness ==
    /\ lastCall.name = "IsPointInFrustum"
    /\ \E i \in 0..5 : /\ IsZero(SignedDistance(i))
                       /\ ~IsZero(heap[TestedArray[i]].normal.x)
    /\ result

----------------------------------------------------------------------------
(* C11: IsPointInFrustum mutates neither the point nor any plane of the     *)
(* sequence, and a call given the inputs of the call before it returns the  *)
(* same boolean.                                                            *)

C12_OtherPlanes == {RejectingPlane, UsedPlane, Plane(0, 0, 0, 0), Plane(0, 0, -1, -2)}

C12_OnlyFirstSix ==
    (lastCall.name = "IsPointInFrustum" /\ Cardinality(DOMAIN TestedArray) > 6)
        => /\ result = IsPointInFrustum(heap, point, [i \in 0..5 |-> TestedArray[i]])
           /\ \A j \in DOMAIN TestedArray \ 0..5 : \A other \in C12_OtherPlanes :
                 result = IsPointInFrustum([heap EXCEPT ![TestedArray[j]] = other],
                                           point, TestedArray)

C12_Witness ==
    /\ lastCall.name = "IsPointInFrustum"
    /\ lastCall.array = "frustumPlanes"
    /\ result
    /\ IsNegative(dotCoordinate(heap[frustumPlanes[6]], point))

(* C20: IsPointInFrustum evaluates the planes in index order 0, 1, ...,     *)
(* returns false at the first plane with a negative signed distance without *)
(* evaluating a later plane, evaluates no plane twice and at most six.      *)

C20_InOrderUntilFirstNegative ==
    lastCall.name = "IsPointInFrustum"
        => LET n == Len(evaluated)
           IN  /\ n <= 6
               /\ \A j \in 1..n : evaluated[j] = j - 1
               /\ \A j \in 1..(n - 1) : ~IsNegative(SignedDistance(j - 1))
               /\ ~result => n >= 1 /\ IsNegative(SignedDistance(n - 1))
               /\ result => n = 6

C20_Witness ==
    /\ lastCall.name = "IsPointInFrustum"
    /\ ~result
    /\ Len(evaluated) = 3
    /\ IsNegative(SignedDistance(4))

(* C13: the result of IsPointInFrustum is the same under any permutation of  *)
(* the six planes.                                                          *)

SixPermutations == Permutations(0..5)

C13_PermutationInvariant ==
    lastCall.name = "IsPointInFrustum"
        => \A f \in SixPermutations :
              result = IsPointInFrustum(heap, point, [i \in 0..5 |-> TestedArray[f[i]]])

C13_Witness ==
    /\ lastCall.name = "IsPointInFrustum"
    /\ ~result
    /\ IsNegative(SignedDistance(1))
    /\ ~IsNegative(SignedDistance(5))
    /\ \E i, j \in 0..5 : ~PlaneEq(heap[TestedArray[i]], heap[TestedArray[j]])

(* C14: each call of GetPlanes returns a new sequence of exactly six planes  *)
(* that are pairwise distinct objects, none of them an object that existed  *)
(* before the call (so none is shared with an earlier call's result or with *)
(* the caller's planes), and the call changes no existing plane.            *)

C14_FreshPlanesEachCall ==
    [][allocCalls' = allocCalls + 1
          => /\ DOMAIN returned' = 0..5
             /\ \A i, j \in 0..5 : returned'[i] = returned'[j] => i = j
             /\ \A i \in 0..5 : /\ returned'[i] \notin DOMAIN heap
                                /\ returned'[i] \in DOMAIN heap'
             /\ returned # NoArray
                   => \A i, j \in 0..5 : returned'[i] # returned[j]
             /\ \A id \in DOMAIN heap : heap'[id] = heap[id]
             /\ frustumPlanes' = frustumPlanes]_vars

C14_Witness ==
    /\ lastCall.name = "GetPlanes"
    /\ allocCalls = 2
    /\ Len(heap) = ArrayLength + 12
    /\ \A i \in 0..5 : PlaneEq(heap[returned[i]], heap[ArrayLength + 1 + i])
    /\ ~PlaneEq(heap[returned[0]], heap[returned[1]])

(* C15: an extraction from a matrix whose raw normal for a plane is zero     *)
(* completes and leaves that plane degenerate: its normal is the zero       *)
(* vector, not a vector of length 1.                                        *)

HasZeroNormal(plane) ==
    /\ IsZero(plane.normal.x)
    /\ IsZero(plane.normal.y)
    /\ IsZero(plane.normal.z)

C15_ZeroRawNormalStaysDegenerate ==
    /\ (lastCall.name \in SinglePlaneNames /\ RawLengthSquared(lastCall.name, transform) = 0)
          => /\ HasZeroNormal(heap[lastCall.target])
             /\ ~HasUnitNormal(heap[lastCall.target])
    /\ lastCall.name \in {"GetPlanesToRef", "GetPlanes"}
          => \A k \in 0..5 :
                RawLengthSquared(SlotName(k), transform) = 0
                   => LET plane == heap[(IF lastCall.name = "GetPlanes"
                                         THEN returned ELSE frustumPlanes)[k]]
                      IN  HasZeroNormal(plane) /\ ~HasUnitNormal(plane)

C15_Witness ==
    /\ lastCall.name = "GetBottomPlaneToRef"
    /\ RawLengthSquared("GetBottomPlaneToRef", transform) = 0
    /\ RawLengthSquared("GetTopPlaneToRef", transform) # 0
    /\ heap[frustumPlanes[0]] = UsedPlane

(* C16: GetPlanesToRef produces no partial result: all six slots are        *)
(* written, and a slot whose raw normal is zero does not keep any other     *)
(* slot from receiving the value of its formula.                            *)

C16_AllSixSlotsWritten ==
    lastCall.name = "GetPlanesToRef"
        => \A k \in 0..5 :
              LET plane == heap[frustumPlanes[k]]
                  r == RawCoefficients(SlotName(k), transform)
              IN  IF RawLengthSquared(SlotName(k), transform) # 0
                  THEN IsNormalizedRaw(plane, r)
                  ELSE HasZeroNormal(plane)

C16_Witness ==
    /\ lastCall.name = "GetPlanesToRef"
    /\ RawLengthSquared(SlotName(0), transform) = 0
    /\ RawLengthSquared(SlotName(5), transform) # 0
    /\ HasUnitNormal(heap[frustumPlanes[5]])
    /\ heap[TargetPlane] = UsedPlane

(* C18: two extraction calls interleaved at the granularity of single       *)
(* plane-field assignments, on disjoint planes and reading the same matrix, *)
(* each end with exactly the planes a run of that call alone produces, and  *)
(* together with what the two calls produce one after the other.            *)

\* The heap after the whole call, run without interruption
Sequential(h, inv) ==
    IF inv.function = "GetPlanesToRef"
    THEN GetPlanesToRef(h, transform, inv.planes)
    ELSE [h EXCEPT ![inv.planes[0]] = SinglePlaneResult(inv.function, h, inv.planes[0])]

PlanesOf(inv) == IF inv.function = "GetPlanesToRef"
                 THEN {inv.planes[k] : k \in 0..5}
                 ELSE {inv.planes[0]}

C18_InterleavedEqualsSequential ==
    /\ \A p \in DOMAIN invocations :
          ~Running(p)
             => \A id \in PlanesOf(invocations[p]) :
                   PlaneEq(heap[id], Sequential(ConcHeap, invocations[p])[id])
    /\ (invocations # <<>> /\ \A p \in DOMAIN invocations : ~Running(p))
          => /\ \A id \in DOMAIN heap :
                  PlaneEq(heap[id],
                          Sequential(Sequential(ConcHeap, invocations[1]), invocations[2])[id])
             /\ \A id \in DOMAIN heap :
                  PlaneEq(heap[id],
                          Sequential(Sequential(ConcHeap, invocations[2]), invocations[1])[id])

C18_Witness ==
    /\ invocations # <<>>
    /\ \A p \in DOMAIN invocations : ~Running(p) /\ invocations[p].overlapped
    /\ invocations[2].function = "GetPlanesToRef"
    /\ ~PlaneEq(heap[frustumPlanes[5]], UsedPlane)
    /\ PlaneEq(heap[SecondArray[5]], heap[frustumPlanes[5]])
    /\ heap[TargetPlane] = UsedPlane

(* C17: with row r, column c of the matrix at m[r*4+c], the raw             *)
(* coefficients a single-plane function assigns are column 3 of the matrix  *)
(* plus or minus one of its columns 0, 1, 2.                                *)

Row(m, r) == [c \in 0..3 |-> m[r * 4 + c]]

Column(m, c) == [r \in 0..3 |-> m[r * 4 + c]]

\* Invocation p has assigned the four raw coefficients and not yet normalized
RawAssigned(p) == Running(p) /\ invocations[p].pc = 4

\* The raw coefficients <<normal.x, normal.y, normal.z, d>> in p's target plane
RawInTarget(p) ==
    [k \in 0..3 |-> GetField(heap[Head(invocations[p].todo)[2]], k).n]

C17_TwoColumns ==
    \A p \in DOMAIN invocations :
       RawAssigned(p)
          => /\ \A k \in 0..3 : GetField(heap[Head(invocations[p].todo)[2]], k).q = 1
             /\ \E c \in 0..2 : \E sign \in {-1, 1} :
                   \A k \in 0..3 :
                      RawInTarget(p)[k] = Column(transform, 3)[k] + sign * Column(transform, c)[k]

\* u and v are linearly dependent
Parallel(u, v) == \A i, j \in 0..3 : u[i] * v[j] = u[j] * v[i]

Det3(u, v, w, i, j, k) ==
      u[i] * (v[j] * w[k] - v[k] * w[j])
    - u[j] * (v[i] * w[k] - v[k] * w[i])
    + u[k] * (v[i] * w[j] - v[j] * w[i])

\* w = a * u + b * v for some real numbers a and b
InSpan(w, u, v) ==
    LET Zero(x) == \A i \in 0..3 : x[i] = 0
    IN  IF ~Parallel(u, v)
        THEN \A i, j, k \in 0..3 : Det3(u, v, w, i, j, k) = 0
        ELSE IF ~Zero(u) THEN Parallel(u, w)
        ELSE IF ~Zero(v) THEN Parallel(v, w)
        ELSE Zero(w)

CombinesTwoRows(w, m) == \E r1, r2 \in 0..3 : InSpan(w, Row(m, r1), Row(m, r2))

\* The statement as the specification has it: a combination of two rows
C17_TwoRows ==
    \A p \in DOMAIN invocations :
       RawAssigned(p) => CombinesTwoRows(RawInTarget(p), transform)

C17_Witness ==
    \E p \in DOMAIN invocations :
       /\ RawAssigned(p)
       /\ Head(invocations[p].todo)[1] = "GetNearPlaneToRef"
       /\ transform = ViewProjectionMatrix
       /\ RawInTarget(p) = [k \in 0..3 |-> IF k < 2 THEN 0 ELSE 2 * k - 1]
       /\ ~CombinesTwoRows(RawInTarget(p), transform)

(* C19: for prefilter on an engine that allows texture prefiltering, once   *)
(* the effect is compiled the call's events are, in this order and each     *)
(* once: the texture is prefiltered, the effect renderer is disposed, the   *)
(* effect wrapper is disposed, the promise is resolved, onFinished (if      *)
(* given) is called; before that the promise is pending and onFinished has  *)
(* not been called.                                                         *)

RECURSIVE EventsOf(_, _)
EventsOf(log, call) ==
    IF log = <<>> THEN <<>>
    ELSE IF Head(log).call = call
         THEN <<Head(log).event>> \o EventsOf(Tail(log), call)
         ELSE EventsOf(Tail(log), call)

C19_CallbackOrder ==
    hdr.allowTexturePrefiltering
        => \A call \in DOMAIN hdr.calls :
              LET c == hdr.calls[call]
              IN  IF c.ran
                  THEN /\ EventsOf(hdr.log, call)
                             = <<"_prefilterInternal", "_effectRenderer", "_effectWrapper",
                                 "resolve">>
                               \o (IF c.onFinished THEN <<"onFinished">> ELSE <<>>)
                       /\ c.promise = "resolved"
                       /\ c.texture \in hdr.prefiltered
                  ELSE /\ EventsOf(hdr.log, call) = <<>>
                       /\ c.promise = "pending"

C19_Witness ==
    /\ hdr.allowTexturePrefiltering
    /\ Len(hdr.calls) = 1
    /\ hdr.calls[1].ran
    /\ hdr.calls[1].onFinished
    /\ Len(hdr.log) = 5
    /\ hdr.log[5].event = "onFinished"

(* C25: when two prefilter calls on one instance overlap (the second is     *)
(* issued before the callback of the first runs), each call filters with    *)
(* the effect wrapper and effect renderer created for it, and each created  *)
(* wrapper and renderer is disposed exactly once and not used after that.   *)

\* The callback of call ran when a later call had been issued already
Overlapped(call) ==
    /\ hdr.calls[call].ran
    /\ \E i \in DOMAIN hdr.log : hdr.log[i].call = call /\ hdr.log[i].issued > call

\* Every call has run its callback and some call overlapped another
AllRanOverlapping ==
    /\ hdr.allowTexturePrefiltering
    /\ \A call \in DOMAIN hdr.calls : hdr.calls[call].ran
    /\ \E call \in DOMAIN hdr.calls : Overlapped(call)

C25_OwnObjectsDisposedOnce ==
    AllRanOverlapping
        => /\ \A i \in DOMAIN hdr.log :
                hdr.log[i].event = "_prefilterInternal"
                   => /\ hdr.log[i]._effectWrapper = hdr.calls[hdr.log[i].call].effect
                      /\ hdr.log[i]._effectRenderer = hdr.calls[hdr.log[i].call].effect - 1
                      /\ \A j \in 1..(i - 1) :
                            hdr.log[j].object \notin {hdr.log[i]._effectWrapper,
                                                      hdr.log[i]._effectRenderer}
           /\ \A object \in DOMAIN hdr.disposals : hdr.disposals[object] = 1

(* C26: when the engine does not allow texture prefiltering, prefilter      *)
(* returns a rejected promise, creates no effect renderer and no effect     *)
(* wrapper, does not modify the texture and never calls onFinished.         *)

C26_RejectedWithoutEffect ==
    ~hdr.allowTexturePrefiltering
        => /\ \A call \in DOMAIN hdr.calls :
                 hdr.calls[call].promise = "rejected" /\ ~hdr.calls[call].ran
           /\ hdr.created = 0
           /\ hdr._effectRenderer = 0
           /\ hdr._effectWrapper = 0
           /\ hdr.disposals = <<>>
           /\ hdr.prefiltered = {}
           /\ hdr.log = <<>>

C26_Witness ==
    /\ ~hdr.allowTexturePrefiltering
    /\ Len(hdr.calls) = 2
    /\ hdr.calls[1].onFinished
    /\ hdr.calls[2].promise = "rejected"
    /\ hdr.warnings = 2

(* C29: _prefilterInternal issues exactly one draw for each (face, lod),     *)
(* face in 0..5 and lod in 0..mipmapsCount-1 with mipmapsCount =             *)
(* ILog2(width) + 1, faces ascending and lods ascending within a face; the   *)
(* framebuffer is bound to that (face, lod) before its draw, alphaG is 0     *)
(* for lod 0, saveStates is called once before the first draw and            *)
(* restoreStates once after the last.                                        *)

\* The positions in the log of the calls with the given name
Positions(name) == {i \in DOMAIN filtering.log : filtering.log[i].call = name}

\* The position of the n-th call with the given name
Nth(name, n) ==
    CHOOSE i \in Positions(name) : Cardinality({j \in Positions(name) : j <= i}) = n

\* The last call with the given name before position i
LastBefore(name, i) ==
    LET before == {j \in Positions(name) : j < i}
    IN  CHOOSE j \in before : \A k \in before : k <= j

C29_OneDrawPerFaceAndLod ==
    LET m == ILog2(filtering.width) + 1
        draws == Cardinality(Positions("draw"))
    IN  filtering.pc # "none"
           => /\ draws <= 6 * m
              /\ filtering.pc = "done" => draws = 6 * m
              /\ \A n \in 1..draws :
                    LET i == Nth("draw", n)
                        draw == filtering.log[i]
                    IN  /\ draw.face = (n - 1) \div m
                        /\ draw.lod = (n - 1) % m
                        /\ \E j \in Positions("bindFramebuffer") : j < i
                        /\ filtering.log[LastBefore("bindFramebuffer", i)].face = draw.face
                        /\ filtering.log[LastBefore("bindFramebuffer", i)].lod = draw.lod
                        /\ \E j \in Positions("alphaG") : j < i
                        /\ draw.lod = 0
                              => filtering.log[LastBefore("alphaG", i)].value.isZero
                        /\ \E j \in Positions("saveStates") : j < i
                        /\ \A j \in Positions("restoreStates") : j > i
              /\ Cardinality(Positions("saveStates")) = 1
              /\ Cardinality(Positions("restoreStates"))
                    = (IF filtering.pc = "done" THEN 1 ELSE 0)

C29_Witness ==
    /\ filtering.pc = "done"
    /\ filtering.width = 8
    /\ Cardinality(Positions("draw")) = 24
    /\ filtering.log[Nth("draw", 24)].lod = 3
    /\ ~filtering.log[LastBefore("alphaG", Nth("draw", 24))].value.isZero

(* C21: _renderLoop queues a new frame at its end only if a render loop is  *)
(* active and _frameHandler is still 0; so, whatever stopRenderLoop and     *)
(* runRenderLoop calls are made while the frame is rendering, at most one   *)
(* frame request is pending when _renderLoop returns, and it queues none    *)
(* when no render loop is active.                                           *)

\* This step is the return of a _renderLoop call
RenderLoopReturns ==
    /\ engine'.frames = engine.frames + 1 \/ engine.inRenderLoop
    /\ ~engine'.inRenderLoop

C21_AtMostOneFramePending ==
    [][RenderLoopReturns
          => /\ engine'.requests # engine.requests
                   => /\ engine._activeRenderLoops # {}
                      /\ engine.inRenderLoop => engine._frameHandler = 0
             /\ engine'.soleRequest => Cardinality(engine'.pendingFrames) <= 1
             /\ engine'._activeRenderLoops = {} => engine'.requests = engine.requests]_vars

(* C24: _renderLoop calls neither beginFrame, _renderViews, _renderFrame    *)
(* nor endFrame when the context was lost, the engine is disposed, or the   *)
(* window is in background and renderEvenInBackground is false; otherwise   *)
(* it calls beginFrame, _renderViews, _renderFrame only if _renderViews     *)
(* returned false, and endFrame, in this order and each once.               *)

RECURSIVE FrameCallsOf(_, _)
FrameCallsOf(log, frame) ==
    IF log = <<>> THEN <<>>
    ELSE IF Head(log).frame = frame
         THEN <<Head(log)>> \o FrameCallsOf(Tail(log), frame)
         ELSE FrameCallsOf(Tail(log), frame)

C24_FrameCallsInOrder ==
    \A frame \in 1..engine.frames :
       LET calls == FrameCallsOf(engine.log, frame)
           names == [i \in DOMAIN calls |-> calls[i].event]
           returned_ == frame < engine.frames \/ ~engine.inRenderLoop
       IN  IF engine._contextWasLost \/ engine.isDisposed
              \/ (engine._windowIsBackground /\ ~engine.renderEvenInBackground)
           THEN calls = <<>>
           ELSE IF ~returned_
           THEN names = <<"beginFrame">>
           ELSE \/ /\ names = <<"beginFrame", "_renderViews", "endFrame">>
                   /\ calls[2].returned
                \/ /\ names = <<"beginFrame", "_renderViews", "_renderFrame", "endFrame">>
                   /\ ~calls[2].returned

C24_Witness ==
    /\ engine.frames = 2
    /\ ~engine.inRenderLoop
    /\ Len(engine.log) = 7
    /\ engine.log[2].returned
    /\ engine.log[6].event = "_renderFrame"
    /\ engine._windowIsBackground

(* C23: after _releaseRenderTargetWrapper(rtWrapper) no post process of any  *)
(* scene of the engine, and none attached to any camera of those scenes,    *)
(* has _outputTexture equal to rtWrapper; the _outputTexture of a post      *)
(* process that referenced another wrapper is unchanged.                    *)

\* The post processes the engine reaches through its scenes and their cameras
ReachedPostProcesses(e) ==
    {postProcess \in DOMAIN e.postProcesses :
        \E scene \in DOMAIN e.scenes :
           \/ \E i \in DOMAIN e.scenes[scene].postProcesses :
                 e.scenes[scene].postProcesses[i] = postProcess
           \/ \E camera \in DOMAIN e.scenes[scene].cameras :
              \E i \in DOMAIN e.scenes[scene].cameras[camera]._postProcesses :
                 e.scenes[scene].cameras[camera]._postProcesses[i] = postProcess}

C23_ReleasedWrapperNotOutput ==
    [][\A rtWrapper \in 1..MaxWrappers :
          engine'.releasedWrappers = engine.releasedWrappers \cup {rtWrapper}
             /\ rtWrapper \notin engine.releasedWrappers
          => /\ \A postProcess \in ReachedPostProcesses(engine') :
                   engine'.postProcesses[postProcess]._outputTexture # rtWrapper
             /\ \A postProcess \in DOMAIN engine.postProcesses :
                   engine.postProcesses[postProcess]._outputTexture # rtWrapper
                      => engine'.postProcesses[postProcess] = engine.postProcesses[postProcess]
             /\ engine'.scenes = engine.scenes]_vars

\* Wrapper 1 was released: it was the output of a post process of a camera
\* of the second scene, which now has none, and a post process writing to
\* wrapper 2 still does
C23_Witness ==
    /\ engine.releasedWrappers = {1}
    /\ \E postProcess \in engine.cleared :
          /\ engine.postProcesses[postProcess]._outputTexture = 0
          /\ \E i \in DOMAIN engine.scenes[2].cameras[1]._postProcesses :
                engine.scenes[2].cameras[1]._postProcesses[i] = postProcess
    /\ \E postProcess \in ReachedPostProcesses(engine) :
          engine.postProcesses[postProcess]._outputTexture = 2

(* C22: every call of _rescaleTexture eventually calls the given onComplete  *)
(* callback exactly once, after the rescaled image has been copied into the *)
(* destination texture, and the temporary render target created for the     *)
(* call is unbound and disposed before onComplete is called.                *)

\* The positions in the rescale log of the events name of the call-th call
RescalePositions(name, call) ==
    {i \in DOMAIN engine.rescaleLog :
        engine.rescaleLog[i].event = name /\ engine.rescaleLog[i].call = call}

\* onComplete was called for the call-th call, once, after the copy into the
\* call's destination and after its render target was unbound and disposed
Completed(call) ==
    /\ Cardinality(RescalePositions("onComplete", call)) = 1
    /\ \A done \in RescalePositions("onComplete", call) :
          /\ \E i \in RescalePositions("copyTexImage2D", call) :
                i < done /\ engine.rescaleLog[i].texture = engine.rescales[call].destination
          /\ \E i \in RescalePositions("unBindFramebuffer", call) :
             \E j \in RescalePositions("dispose", call) : i < j /\ j < done

C22_OnCompleteCalledOnce ==
    \A call \in 1..MaxRescaleCalls :
       [](Len(engine.rescales) >= call /\ engine.rescales[call].onComplete
             => <>[]Completed(call))

(* C27: every buffer and sync object _readPixelsAsync creates is deleted     *)
(* exactly once on every completion path: the wait succeeds, fenceSync      *)
(* fails and the call returns null, or the wait fails and the promise is    *)
(* rejected; on WebGL < 2 the call throws before creating any resource.     *)

\* The read has completed: it threw, returned null, or its promise was
\* settled and, when resolved, the callback has run
ReadCompleted(read) ==
    \/ read.did \in {"threw", "null"}
    \/ read.promise = "rejected"
    \/ read.promise = "resolved" /\ read.thenRan

C27_ResourcesDeletedOnce ==
    \A call \in DOMAIN engine.reads :
       LET read == engine.reads[call]
       IN  /\ read.bufDeleted <= read.bufCreated /\ read.syncDeleted <= read.syncCreated
           /\ read.did = "threw" => read.bufCreated = 0 /\ read.syncCreated = 0
           /\ ReadCompleted(read)
                 => read.bufDeleted = read.bufCreated /\ read.syncDeleted = read.syncCreated

(* C28: resolve or reject of the promise of _clientWaitAsync is called at   *)
(* most once: reject after a WAIT_FAILED poll, resolve after a poll with    *)
(* any result other than TIMEOUT_EXPIRED, and after a TIMEOUT_EXPIRED poll  *)
(* exactly one further poll is scheduled; no poll runs once the promise is  *)
(* settled; and when the sync object stops returning TIMEOUT_EXPIRED and    *)
(* timers fire, the promise is eventually settled.                          *)

\* What check does after a poll with the given result
AfterPoll(res) ==
    IF res = "WAIT_FAILED" THEN "reject"
    ELSE IF res = "TIMEOUT_EXPIRED" THEN "setTimeout" ELSE "resolve"

WaitLogInOrder(read) ==
    LET waitLog == read.waitLog
    IN  /\ Len(waitLog) = 2 * read.polls
        /\ \A i \in DOMAIN waitLog :
              IF i % 2 = 1
              THEN waitLog[i] \in WaitResults
              ELSE /\ waitLog[i] = AfterPoll(waitLog[i - 1])
                   /\ waitLog[i] \in {"reject", "resolve"} => i = Len(waitLog)
        /\ read.timers = (IF waitLog # <<>> /\ waitLog[Len(waitLog)] = "setTimeout"
                          THEN 1 ELSE 0)
        /\ ~read.polledSettled
        /\ read.promise = (IF waitLog = <<>> THEN "none"
                           ELSE IF waitLog[Len(waitLog)] = "reject" THEN "rejected"
                           ELSE IF waitLog[Len(waitLog)] = "resolve" THEN "resolved"
                           ELSE "pending")

\* The promise of the call-th read is in one of the given states
WaitIs(call, states) ==
    call \in DOMAIN engine.reads /\ engine.reads[call].promise \in states

C28_WaitSettlesOnce ==
    /\ [](\A call \in DOMAIN engine.reads : WaitLogInOrder(engine.reads[call]))
    /\ \A call \in 1..MaxReadCalls :
          WaitIs(call, {"pending"}) ~> WaitIs(call, {"resolved", "rejected"})

\* A wait that timed out MaxPolls times and was then resolved, and another
\* that timed out and was then rejected
C28_Witness ==
    /\ \E call \in DOMAIN engine.reads :
          /\ engine.reads[call].polls = MaxPolls + 1
          /\ engine.reads[call].promise = "resolved"
    /\ \E call \in DOMAIN engine.reads :
          /\ engine.reads[call].polls = 2
          /\ engine.reads[call].promise = "rejected"

====
